---- MODULE Spec2Model ----
(***************************************************************************)
(* WhaleWatcher: the transaction collector (src/src/data/collector.py),    *)
(* the normalizer / daily aggregator (src/src/data/processor.py) and the   *)
(* metrics engine (src/src/data/metrics.py).                               *)
(*                                                                         *)
(* Conventions.                                                            *)
(*  - An optional value (Python None, pandas NaN, an empty CSV cell) is a  *)
(*    sequence of length <= 1: <<>> is "unset", <<v>> is the value v.      *)
(*  - A transaction hash is a positive integer.  The ledger API lists a    *)
(*    wallet's transactions newest first; the n-th transaction the wallet  *)
(*    ever made has hash n, so a ledger of n transactions is               *)
(*    <<n, n-1, ..., 1>> and a new transaction is prepended.               *)
(*  - A record returned by the API carries, beside its hash, the number of *)
(*    the request that returned it (req): two fetches of the same hash are *)
(*    two records (confirmations and block height change between them).    *)
(*  - A BTC quantity (amount_btc, balance_btc, fee) is satoshis / 10^8     *)
(*    (processor.py:80-82), an exact rational with the fixed denominator   *)
(*    10^8; it is represented by its numerator, the satoshi count.  A      *)
(*    quotient of two such quantities (portfolio_pct, roi_overall) is kept *)
(*    as the fraction [num, den] the code divides, and compared by value.  *)
(*  - A calendar date is its day number since the epoch; a timestamp is    *)
(*    Unix seconds.                                                        *)
(***************************************************************************)
EXTENDS Integers, Sequences, FiniteSets, TLC

\* ------------------------------------------------------------------ bounds
\* Largest number of transactions in the ledger when collection starts.
MaxInitial == 101
\* Largest number of arrival bursts (new transactions reaching the ledger
\* between two page requests) during one collection.
MaxArrivals == 2
\* Largest number of transactions in a wallet's raw history file.
MaxTx == 3
\* Raw histories and price tables cover the calendar days 1..MaxDay.
MaxDay == 2
\* A normalization run is repeated until MaxRuns runs were made.
MaxRuns == 2
\* The wall clock, read by datetime.now(), runs over 1..MaxClock.
MaxClock == 2
\* Largest significant-sell count handed to the trader classification.
MaxSignificantSells == 4
\* Largest number of days that pass while the price updater is observed.
MaxDaysPassed == 2
\* Largest number of update_price_data runs observed.
MaxUpdates == 3
\* Runs of the daily pipeline.
MaxPipelineRuns == 3

\* ------------------------------------------------------- program constants
\* collector.py:44  limit = 50  (page size)
limit == 50
\* processor.py:78, 136  Unix seconds to calendar date (pandas, unit='s')
SecondsPerDay == 86400
\* metrics.py:15  SIGNIFICANT_SELL_THRESHOLD = 0.01
SIGNIFICANT_SELL_THRESHOLD == [num |-> 1, den |-> 100]
\* metrics.py:16  trades per month for active trader
TRADE_FREQUENCY_THRESHOLD == 10
\* metrics.py:17  days to consider holding
HOLDING_PERIOD_THRESHOLD == 30
\* processor.py:93, 96  the rank of a wallet the richlist does not list
SentinelRank == 999
\* BTC_price_collector.py:31  timedelta(days=30), the window of a first fetch
InitialWindow == 30

VARIABLES
    \* ---- collector: WhaleDataCollector.get_wallet_transactions
    c_pc,           \* "fetch": in the while loop; "done": returned
    ledger_size,    \* transactions the ledger API holds for the address now
    ledger0,        \* ledger_size when collection started (history)
    arrivals,       \* arrival bursts so far (history, bounds the model)
    offset,         \* collector.py:43
    transactions,   \* collector.py:42, the list that is returned
    last_hash,      \* collector.py:45, <<>> is None
    requests,       \* requests issued so far (history)
    pages,          \* pages received with status 200, in order (history)
    outcome,        \* how the loop ended: which break was taken
    \* ---- files under data/
    raw_file,       \* raw/transactions/{wallet}.csv: <<>> or <<rows>>
    richlist_dir,   \* raw/richlist: [exists, files]
    price_file,     \* raw/price/BTC_USD_Bitfinex_Investing_com.csv: <<>> or <<rows>>
    processed_file, \* processed/transactions/{wallet}.csv: <<>> or <<rows>>
    \* ---- normalizer: DataProcessor
    p_pc,           \* "idle", "new", "ready" (constructed), "failed" (__init__ raised)
    price_data,     \* self.price_data
    richlist,       \* self.richlist, <<>> is the empty DataFrame
    now,            \* the wall clock
    runs,           \* calls of process_wallet_transactions so far (history)
    prev_processed, \* processed_file as the previous call left it (history)
    \* ---- metrics engine: WalletMetricsCalculator
    m_pc,           \* "idle", "new", "ready" (constructed)
    current_btc_price,  \* self.current_btc_price
    wallet_metrics, \* processed/wallet_metrics/{wallet}.csv: <<>> or <<metrics>>
    summary_file,   \* processed/wallet_metrics/all_wallets_summary.csv: <<>> or <<rows>>
    \* ---- trader classification: the inputs of _analyze_trading_pattern's
    \*      last step and its result
    t_days,         \* (df['timestamp'].max() - df['timestamp'].min()).days
    t_trades,       \* len(trades)
    t_sells,        \* metrics['significant_sells_count']
    t_type,         \* metrics['trader_type'], "" before it is set
    \* ---- the metrics engine over several wallets
    processed_files,\* wallet -> processed/transactions/{wallet}.csv: <<>> or <<rows>>
    metrics_files,  \* wallet -> processed/wallet_metrics/{wallet}.csv: <<>> or <<metrics>>
    replaced,       \* wallets whose metrics were recomputed with other values (history)
    w_pc,           \* wallet -> where the worker saving its metrics is
    w_metrics,      \* wallet -> the metrics dict that worker is saving
    w_summary,      \* wallet -> that worker's summary_df: <<>> or <<rows>>
    \* ---- a batch loop over wallets
    b_kind,         \* "collection", "normalization" or "metrics"; "" when none runs
    b_input,        \* the wallets the loop iterates over, in iteration order
    b_faulty,       \* the wallets whose handling raises an exception
    b_next,         \* index in b_input of the wallet the loop handles next
    b_attempts,     \* wallet -> times its handling was started (history)
    b_logged,       \* the wallets whose error was logged, in order
    b_pc,           \* "idle", "loop", "done", "aborted"
    \* ---- price updater: BTCPriceCollector.update_price_data
    today,          \* the calendar day of datetime.now()
    u_runs,         \* update_price_data runs so far (history)
    u_prev,         \* price_file as it was when the last run started (history)
    u_outcome,      \* "" (no run yet), "updated", "up_to_date", "failed"
    \* ---- storage: DataStorage, the raw file of one address (raw_file)
    st_pc,          \* "idle", "ready", "saved" (save returned), "loaded" (get returned)
    st_data,        \* the table handed to save_wallet_transactions
    st_loaded,      \* the table storage get_wallet_transactions returned
    \* ---- the sort of the pandas/numpy build under the normalizer
    tie_order,      \* what sort_values does with rows of equal key
    \* ---- the daily pipeline: scripts/WhaleWatcher.py
    pl_pc,          \* "idle", "running", "done" (completed), "failed" (sys.exit(1))
    pl_runs,        \* pipeline runs started so far
    pl_started,     \* the scripts started in this run, in order (history)
    pl_exited,      \* the return codes of the scripts that exited, in order
    pl_step,        \* the step the running script is at; 0 when none runs
    pl_errors,      \* the errors raised in this run: [script, step] (history)
    pl_status       \* the exit status of the pipeline: <<>> while it runs

collectorVars == <<c_pc, ledger_size, ledger0, arrivals, offset, transactions,
                   last_hash, requests, pages, outcome>>

fileVars == <<raw_file, richlist_dir, price_file, processed_file>>

processorVars == <<p_pc, price_data, richlist, now, runs, prev_processed>>

metricsVars == <<m_pc, current_btc_price, wallet_metrics, summary_file>>

classifyVars == <<t_days, t_trades, t_sells, t_type>>

summaryVars == <<processed_files, metrics_files, replaced, w_pc, w_metrics, w_summary>>

batchVars == <<b_kind, b_input, b_faulty, b_next, b_attempts, b_logged, b_pc>>

updaterVars == <<today, u_runs, u_prev, u_outcome>>

storageVars == <<st_pc, st_data, st_loaded>>

sortVars == <<tie_order>>

pipelineVars == <<pl_pc, pl_runs, pl_started, pl_exited, pl_step, pl_errors, pl_status>>

\* The variables of the components added to the first three.
otherVars == <<classifyVars, summaryVars, batchVars, updaterVars, storageVars,
               sortVars, pipelineVars>>

vars == <<c_pc, ledger_size, ledger0, arrivals, offset, transactions,
          last_hash, requests, pages, outcome,
          raw_file, richlist_dir, price_file, processed_file,
          p_pc, price_data, richlist, now, runs, prev_processed,
          m_pc, current_btc_price, wallet_metrics, summary_file,
          t_days, t_trades, t_sells, t_type,
          processed_files, metrics_files, replaced, w_pc, w_metrics, w_summary,
          b_kind, b_input, b_faulty, b_next, b_attempts, b_logged, b_pc,
          today, u_runs, u_prev, u_outcome,
          st_pc, st_data, st_loaded,
          tie_order,
          pl_pc, pl_runs, pl_started, pl_exited, pl_step, pl_errors, pl_status>>

\* ------------------------------------------------------------- helpers
Min(a, b) == IF a < b THEN a ELSE b

Max(a, b) == IF a > b THEN a ELSE b

RECURSIVE Flatten(_)
\* The concatenation of a sequence of sequences.
Flatten(ss) == IF ss = <<>> THEN <<>> ELSE Head(ss) \o Flatten(Tail(ss))

Hashes(txs) == {txs[i].hash : i \in 1..Len(txs)}

\* ------------------------------------------------------------ ledger API
\* GET rawaddr/{address}?offset=o&limit=l answered with status 200 by request
\* number r: the slice [o, o+l) of the newest-first ledger.
Page(size, o, l, r) ==
    [i \in 1..Max(0, Min(l, size - o)) |-> [hash |-> size - o - i + 1, req |-> r]]

\* Sizes of an arrival burst: one transaction, just under a page, just over.
ArrivalSizes == {1, limit - 1, limit + 1}

\* New transactions reach the ledger between two requests of a collection.
NewTransactions ==
    /\ c_pc = "fetch"
    /\ requests >= 1
    /\ arrivals < MaxArrivals
    /\ \E k \in ArrivalSizes : ledger_size' = ledger_size + k
    /\ arrivals' = arrivals + 1
    /\ UNCHANGED <<c_pc, ledger0, offset, transactions, last_hash, requests,
                   pages, outcome>>
    /\ UNCHANGED <<fileVars, processorVars, metricsVars>>
    /\ UNCHANGED otherVars

\* ------------------------------------------------------------- collector
\* {tx["hash"]: tx for tx in s}.values(): one record per hash, at the place
\* of the hash's first occurrence, holding the record of its last occurrence.
DictValues(s) ==
    LET n == Len(s)
        idx == [i \in 1..n |-> i]
        IsFirst(i) == \A j \in 1..(i - 1) : s[j].hash # s[i].hash
        IsLast(i) == \A j \in (i + 1)..n : s[j].hash # s[i].hash
        firsts == SelectSeq(idx, IsFirst)
        lasts == SelectSeq(idx, IsLast)
    IN  [k \in 1..Len(firsts) |->
            s[CHOOSE j \in {lasts[m] : m \in 1..Len(lasts)} :
                  s[j].hash = s[firsts[k]].hash]]

\* any(tx["hash"] == last_hash for tx in txs), guarded by "last_hash and"
SeesLastHash(txs) ==
    /\ last_hash # <<>>
    /\ \E i \in 1..Len(txs) : txs[i].hash = last_hash[1]

\* FetchPage asking first whether the page is short, then for the last hash.
FetchPage_ShortPageFirst ==
    /\ c_pc = "fetch"
    /\ LET txs == Page(ledger_size, offset, limit, requests + 1) IN
       /\ requests' = requests + 1
       /\ pages' = Append(pages, txs)
       /\ IF Len(txs) < limit
          THEN /\ transactions' = transactions \o txs
               /\ last_hash' = IF txs # <<>> THEN <<txs[Len(txs)].hash>> ELSE last_hash
               /\ outcome' = "all_received"
               /\ c_pc' = "done"
               /\ UNCHANGED offset
          ELSE IF SeesLastHash(txs)
          THEN /\ transactions' = DictValues(transactions \o txs)
               /\ outcome' = "duplicate"
               /\ c_pc' = "done"
               /\ UNCHANGED <<last_hash, offset>>
          ELSE /\ transactions' = transactions \o txs
               /\ last_hash' = <<txs[Len(txs)].hash>>
               /\ offset' = offset + limit
               /\ UNCHANGED <<outcome, c_pc>>
    /\ UNCHANGED <<ledger_size, ledger0, arrivals>>
    /\ UNCHANGED <<fileVars, processorVars, metricsVars>>
    /\ UNCHANGED otherVars

\* FetchPage advancing the offset by one after a full page, not by the page
\* size.
FetchPage_OffsetByOne ==
    /\ c_pc = "fetch"
    /\ LET txs == Page(ledger_size, offset, limit, requests + 1) IN
       /\ requests' = requests + 1
       /\ pages' = Append(pages, txs)
       /\ IF SeesLastHash(txs)
          THEN /\ transactions' = DictValues(transactions \o txs)
               /\ outcome' = "duplicate"
               /\ c_pc' = "done"
               /\ UNCHANGED <<last_hash, offset>>
          ELSE /\ transactions' = transactions \o txs
               /\ last_hash' = IF txs # <<>> THEN <<txs[Len(txs)].hash>> ELSE last_hash
               /\ IF Len(txs) < limit
                  THEN /\ outcome' = "all_received"
                       /\ c_pc' = "done"
                       /\ UNCHANGED offset
                  ELSE /\ offset' = offset + 1
                       /\ UNCHANGED <<outcome, c_pc>>
    /\ UNCHANGED <<ledger_size, ledger0, arrivals>>
    /\ UNCHANGED <<fileVars, processorVars, metricsVars>>
    /\ UNCHANGED otherVars

\* One iteration of the while loop whose request is answered with status 200.
FetchPage ==
    /\ c_pc = "fetch"
    /\ LET txs == Page(ledger_size, offset, limit, requests + 1) IN
       /\ requests' = requests + 1
       /\ pages' = Append(pages, txs)
       /\ IF SeesLastHash(txs)
          THEN /\ transactions' = DictValues(transactions \o txs)
               /\ outcome' = "duplicate"
               /\ c_pc' = "done"
               /\ UNCHANGED <<last_hash, offset>>
          ELSE /\ transactions' = transactions \o txs
               /\ last_hash' = IF txs # <<>> THEN <<txs[Len(txs)].hash>> ELSE last_hash
               /\ IF Len(txs) < limit
                  THEN /\ outcome' = "all_received"
                       /\ c_pc' = "done"
                       /\ UNCHANGED offset
                  ELSE /\ offset' = offset + limit
                       /\ UNCHANGED <<outcome, c_pc>>
    /\ UNCHANGED <<ledger_size, ledger0, arrivals>>
    /\ UNCHANGED <<fileVars, processorVars, metricsVars>>
    /\ UNCHANGED otherVars

\* FetchApiError with "continue" in place of "break": the loop asks again.
FetchApiError_Continue ==
    /\ c_pc = "fetch"
    /\ requests' = requests + 1
    /\ outcome' = "api_error"
    /\ UNCHANGED <<c_pc, ledger_size, ledger0, arrivals, offset, transactions,
                   last_hash, pages>>
    /\ UNCHANGED <<fileVars, processorVars, metricsVars>>
    /\ UNCHANGED otherVars

\* One iteration whose request is answered with a status other than 200:
\* log, break, return what was accumulated.
FetchApiError ==
    /\ c_pc = "fetch"
    /\ requests' = requests + 1
    /\ outcome' = "api_error"
    /\ c_pc' = "done"
    /\ UNCHANGED <<ledger_size, ledger0, arrivals, offset, transactions,
                   last_hash, pages>>
    /\ UNCHANGED <<fileVars, processorVars, metricsVars>>
    /\ UNCHANGED otherVars

\* One iteration in which the try block raises (the proxy lookup, the
\* transport, response.json()): the except clause logs and breaks.
FetchException ==
    /\ c_pc = "fetch"
    /\ requests' = requests + 1
    /\ outcome' = "exception"
    /\ c_pc' = "done"
    /\ UNCHANGED <<ledger_size, ledger0, arrivals, offset, transactions,
                   last_hash, pages>>
    /\ UNCHANGED <<fileVars, processorVars, metricsVars>>
    /\ UNCHANGED otherVars

CollectInit ==
    /\ c_pc = "fetch"
    /\ ledger_size \in 0..MaxInitial
    /\ ledger0 = ledger_size
    /\ arrivals = 0
    /\ offset = 0
    /\ transactions = <<>>
    /\ last_hash = <<>>
    /\ requests = 0
    /\ pages = <<>>
    /\ outcome = "running"

\* No collection is running.
CollectIdle ==
    /\ c_pc = "idle"
    /\ ledger_size = 0
    /\ ledger0 = 0
    /\ arrivals = 0
    /\ offset = 0
    /\ transactions = <<>>
    /\ last_hash = <<>>
    /\ requests = 0
    /\ pages = <<>>
    /\ outcome = "idle"

CollectNext ==
    \/ NewTransactions
    \/ FetchPage
    \/ FetchApiError
    \/ FetchException

\* ------------------------------------------------------------ input files
wallet_address == "w1"

Abs(x) == IF x < 0 THEN 0 - x ELSE x

Range(s) == {s[i] : i \in 1..Len(s)}

RECURSIVE SumSeq(_)
SumSeq(s) == IF s = <<>> THEN 0 ELSE Head(s) + SumSeq(Tail(s))

Reverse(s) == [i \in 1..Len(s) |-> s[Len(s) + 1 - i]]

\* Unix times of the transactions: the first and the last second of a day.
Times == {d * SecondsPerDay + sec : d \in 1..MaxDay, sec \in {0, SecondsPerDay - 1}}

\* Satoshis a transaction moves into (> 0) or out of (< 0) the wallet.
Results == {-2, -1, 1, 2}

\* The n-th transaction of a wallet as the ledger API reports it (spec.md,
\* section 6): balance is the balance after the transaction.
RawTx(n, t, r, b) ==
    [hash |-> n, time |-> t, result |-> r, balance |-> b, fee |-> 10 * n,
     block_height |-> 100 + n]

\* What can follow the chronological history h: time does not run backwards
\* and the balance never goes below zero.
Followers(h) ==
    LET lastTime == IF h = <<>> THEN 0 ELSE h[Len(h)].time
        lastBal == IF h = <<>> THEN 0 ELSE h[Len(h)].balance
    IN  {x \in Times \X Results : x[1] >= lastTime /\ lastBal + x[2] >= 0}

RECURSIVE Ledgers(_)
\* The chronological histories of n transactions.
Ledgers(n) ==
    IF n = 0 THEN {<<>>}
    ELSE UNION {{Append(h, RawTx(n, x[1], x[2],
                                 (IF h = <<>> THEN 0 ELSE h[Len(h)].balance) + x[2]))
                   : x \in Followers(h)} : h \in Ledgers(n - 1)}

\* raw/transactions/{wallet}.csv.  The collection stage saves no file for an
\* empty result (storage.py:33, run_collection.py:49), so a file that exists
\* holds at least one row; rows are in the API's order, newest first.
RawFiles ==
    {<<>>} \cup {<<Reverse(h)>> : h \in UNION {Ledgers(n) : n \in 1..MaxTx}}

\* Rows of the price table for day d: none, one, or two for the same date.
DayPriceRows(d) ==
    IF d = 1
    THEN {<<>>, <<[Date |-> d, Price |-> 10]>>,
          <<[Date |-> d, Price |-> 12], [Date |-> d, Price |-> 10]>>}
    ELSE {<<>>, <<[Date |-> d, Price |-> 10]>>, <<[Date |-> d, Price |-> 12]>>}

RECURSIVE PriceTables(_)
\* The price tables over the days 1..d, in ascending date order.
PriceTables(d) ==
    IF d = 0 THEN {<<>>}
    ELSE {t \o rows : t \in PriceTables(d - 1), rows \in DayPriceRows(d)}

PriceFiles == {<<>>} \cup {<<t>> : t \in PriceTables(MaxDay)}

\* raw/richlist: the directory may be missing, hold no snapshot, or hold
\* snapshots richlist_{date}.csv, each readable or not.
RichlistDirs ==
    { [exists |-> FALSE, files |-> {}],
      [exists |-> TRUE, files |-> {}],
      [exists |-> TRUE, files |-> {[date |-> 20250101, readable |-> TRUE, rows |-> <<>>]}],
      [exists |-> TRUE, files |-> {[date |-> 20250101, readable |-> FALSE, rows |-> <<>>]}],
      [exists |-> TRUE, files |->
          {[date |-> 20250101, readable |-> TRUE,
            rows |-> <<[btc_address |-> "w2", rank |-> 1]>>]}],
      [exists |-> TRUE, files |->
          {[date |-> 20250101, readable |-> TRUE,
            rows |-> <<[btc_address |-> "w1", rank |-> 7]>>],
           [date |-> 20250102, readable |-> TRUE,
            rows |-> <<[btc_address |-> "w2", rank |-> 1],
                       [btc_address |-> "w1", rank |-> 3]>>]}] }

\* ------------------------------------------------------------- normalizer
\* DataProcessor._load_richlist
LoadRichlist(dir) ==
    IF ~dir.exists THEN <<>>
    ELSE IF dir.files = {} THEN <<>>
    ELSE LET latest_file == CHOOSE f \in dir.files :
                                \A g \in dir.files : g.date <= f.date
         IN  IF latest_file.readable THEN latest_file.rows ELSE <<>>

\* DataProcessor.__init__ when the price file exists.
ConstructProcessor ==
    /\ p_pc = "new"
    /\ price_file # <<>>
    /\ price_data' = price_file[1]
    /\ richlist' = LoadRichlist(richlist_dir)
    /\ p_pc' = "ready"
    /\ UNCHANGED <<collectorVars, metricsVars, fileVars, now, runs, prev_processed>>
    /\ UNCHANGED otherVars

\* DataProcessor.__init__ when the price file is missing: _load_price_data
\* logs and re-raises FileNotFoundError, no processor is constructed.
ConstructProcessorFails ==
    /\ p_pc = "new"
    /\ price_file = <<>>
    /\ p_pc' = "failed"
    /\ UNCHANGED <<collectorVars, metricsVars, fileVars, price_data, richlist, now, runs,
                   prev_processed>>
    /\ UNCHANGED otherVars

\* RankOf with 0 in place of the sentinel (the fillna(0) of processor.py:140).
RankOf_ZeroFilled(address) ==
    IF richlist # <<>>
    THEN IF \E i \in 1..Len(richlist) : richlist[i].btc_address = address
         THEN richlist[CHOOSE i \in 1..Len(richlist) :
                           /\ richlist[i].btc_address = address
                           /\ \A j \in 1..(i - 1) : richlist[j].btc_address # address].rank
         ELSE 0
    ELSE 0

\* processor.py:88-97
RankOf(address) ==
    IF richlist # <<>>
    THEN IF \E i \in 1..Len(richlist) : richlist[i].btc_address = address
         THEN richlist[CHOOSE i \in 1..Len(richlist) :
                           /\ richlist[i].btc_address = address
                           /\ \A j \in 1..(i - 1) : richlist[j].btc_address # address].rank
         ELSE SentinelRank
    ELSE SentinelRank

\* pd.to_datetime(time, unit='s') followed by .dt.date / strftime('%Y-%m-%d')
DateOf(t) == t \div SecondsPerDay

\* processor.py:100-109: the first Price listed for the date, None when the
\* date is not in the index.
PriceOn(date) ==
    IF \E i \in 1..Len(price_data) : price_data[i].Date = date
    THEN <<price_data[CHOOSE i \in 1..Len(price_data) :
                          /\ price_data[i].Date = date
                          /\ \A j \in 1..(i - 1) : price_data[j].Date # date].Price>>
    ELSE <<>>

\* lambda x: 'buy' if x > 0 else 'sell' if x < 0 else 'transfer'
TransactionType(x) == IF x > 0 THEN "buy" ELSE IF x < 0 THEN "sell" ELSE "transfer"

\* PortfolioPct with the unset case filled with 0.
PortfolioPct_ZeroFilled(amount, balance) ==
    IF balance # 0 THEN <<[num |-> Abs(amount) * 100, den |-> balance]>>
    ELSE <<[num |-> 0, den |-> 1]>>

\* (abs(amount) / balance) * 100 if balance != 0 else None
PortfolioPct(amount, balance) ==
    IF balance # 0 THEN <<[num |-> Abs(amount) * 100, den |-> balance]>> ELSE <<>>

\* processor.py:76-127: one row of `processed` per raw transaction.
ProcessedRow(tx) ==
    LET price == PriceOn(DateOf(tx.time)) IN
    [wallet_address |-> wallet_address,
     timestamp |-> tx.time,
     hash |-> tx.hash,
     amount_btc |-> tx.result,
     balance_btc |-> tx.balance,
     fee |-> tx.fee,
     block_height |-> tx.block_height,
     last_updated |-> now,
     rank |-> RankOf(wallet_address),
     price_usd |-> price,
     transaction_value_usd |->
         IF price # <<>> THEN <<tx.result * price[1]>> ELSE <<>>,
     transaction_type |-> TransactionType(tx.result),
     portfolio_pct |-> PortfolioPct(tx.result, tx.balance),
     date |-> DateOf(tx.time)]

\* sort_values sorts with kind='quicksort', which is not a stable sort: the
\* order it leaves rows of equal key in depends on the numpy build and on the
\* length of the table.  Two of the orders a build can leave them in: the
\* order they had, and that order reversed.
TieOrders == {"kept", "reversed"}

RECURSIVE InsertByTimestamp(_, _)
\* r placed after every row of the sorted s whose timestamp is smaller, and
\* after or before the rows of equal timestamp as the sort orders ties.
InsertByTimestamp(s, r) ==
    IF s = <<>> THEN <<r>>
    ELSE IF \/ s[Len(s)].timestamp < r.timestamp
            \/ s[Len(s)].timestamp = r.timestamp /\ tie_order = "kept"
         THEN Append(s, r)
         ELSE Append(InsertByTimestamp(SubSeq(s, 1, Len(s) - 1), r), s[Len(s)])

RECURSIVE SortByTimestamp(_)
\* processed.sort_values('timestamp'): ascending, rows of equal timestamp
\* in the order the build's sort leaves them in.
SortByTimestamp(s) ==
    IF s = <<>> THEN <<>>
    ELSE InsertByTimestamp(SortByTimestamp(SubSeq(s, 1, Len(s) - 1)), s[Len(s)])

\* The values that are set, in order (pandas aggregations skip NaN).
Known(opts) ==
    LET set == SelectSeq(opts, LAMBDA o : o # <<>>)
    IN  [i \in 1..Len(set) |-> set[i][1]]

\* groupby 'sum': the sum of the values that are set, 0 when none is.
AggSum(opts) == <<SumSeq(Known(opts))>>

\* groupby 'mean': the mean of the values that are set, NaN when none is.
\* The prices of one day's rows are one and the same number, so the quotient
\* is exact.
AggMean(opts) ==
    IF Known(opts) = <<>> THEN <<>>
    ELSE <<SumSeq(Known(opts)) \div Len(Known(opts))>>

RECURSIVE MaxSeq(_)
MaxSeq(s) == IF Len(s) = 1 THEN s[1] ELSE Max(s[1], MaxSeq(Tail(s)))

Column(rows, f) == [i \in 1..Len(rows) |-> rows[i][f]]

\* DailyTransactionType taken from the day's first transaction.
DailyTransactionType_Inherited(g, amount) == g[1].transaction_type

\* processor.py:163-165: the type of the day, from the net movement.
DailyTransactionType(g, amount) == TransactionType(amount)

\* DailyTimestamp taken from the wrong column.
DailyTimestamp_LastUpdated(g) == MaxSeq(Column(g, "last_updated"))

\* processor.py:175: the day's timestamp is its date.
DailyTimestamp(g) == g[1].date

\* DailyRow taking the day's amount and fee from its last row, as it takes
\* the balance.
DailyRow_AmountLast(g) ==
    LET amount == g[Len(g)].amount_btc
        balance == g[Len(g)].balance_btc
    IN
    [wallet_address |-> g[1].wallet_address,
     rank |-> g[1].rank,
     first_timestamp |-> g[1].timestamp,
     last_timestamp |-> g[Len(g)].timestamp,
     transactions |-> Column(g, "hash"),
     amount_btc |-> amount,
     balance_btc |-> balance,
     total_fee |-> g[Len(g)].fee,
     first_block |-> g[1].block_height,
     last_block |-> g[Len(g)].block_height,
     last_updated |-> MaxSeq(Column(g, "last_updated")),
     price_usd |-> AggMean(Column(g, "price_usd")),
     transaction_value_usd |-> AggSum(Column(g, "transaction_value_usd")),
     transaction_type |-> DailyTransactionType(g, amount),
     portfolio_pct |-> PortfolioPct(amount, balance),
     timestamp |-> DailyTimestamp(g)]

\* processor.py:141-176: the record of one group g, the rows of one
\* (wallet_address, date, rank) in timestamp order.
DailyRow(g) ==
    LET amount == SumSeq(Column(g, "amount_btc"))
        balance == g[Len(g)].balance_btc
    IN
    [wallet_address |-> g[1].wallet_address,
     rank |-> g[1].rank,
     first_timestamp |-> g[1].timestamp,
     last_timestamp |-> g[Len(g)].timestamp,
     transactions |-> Column(g, "hash"),
     amount_btc |-> amount,
     balance_btc |-> balance,
     total_fee |-> SumSeq(Column(g, "fee")),
     first_block |-> g[1].block_height,
     last_block |-> g[Len(g)].block_height,
     last_updated |-> MaxSeq(Column(g, "last_updated")),
     price_usd |-> AggMean(Column(g, "price_usd")),
     transaction_value_usd |-> AggSum(Column(g, "transaction_value_usd")),
     transaction_type |-> DailyTransactionType(g, amount),
     portfolio_pct |-> PortfolioPct(amount, balance),
     timestamp |-> DailyTimestamp(g)]

\* GroupKey by the timestamp itself.
GroupKey_Timestamp(r) == <<r.wallet_address, r.timestamp, r.rank>>

\* processor.py:141: the key of the group a row belongs to.
GroupKey(r) == <<r.wallet_address, r.date, r.rank>>

RECURSIVE GroupsFrom(_)
\* groupby(...).agg(...) over rows sorted by timestamp: the groups in
\* ascending key order (wallet and rank are the same in every row, so that is
\* the order of first appearance), each aggregated into one record.
GroupsFrom(rows) ==
    IF rows = <<>> THEN <<>>
    ELSE LET k == GroupKey(rows[1])
             g == SelectSeq(rows, LAMBDA r : GroupKey(r) = k)
             rest == SelectSeq(rows, LAMBDA r : GroupKey(r) # k)
         IN  <<DailyRow(g)>> \o GroupsFrom(rest)

RECURSIVE InsertDaily(_, _)
InsertDaily(s, r) ==
    IF s = <<>> THEN <<r>>
    ELSE IF s[Len(s)].timestamp <= r.timestamp THEN Append(s, r)
         ELSE Append(InsertDaily(SubSeq(s, 1, Len(s) - 1), r), s[Len(s)])

RECURSIVE SortDaily(_)
\* daily_aggregated.sort_values('timestamp')
SortDaily(s) ==
    IF s = <<>> THEN <<>>
    ELSE InsertDaily(SortDaily(SubSeq(s, 1, Len(s) - 1)), s[Len(s)])

\* processor.py:63-179: the daily table computed from the rows of the raw file.
DailyAggregated(rawRows) ==
    LET processed == [i \in 1..Len(rawRows) |-> ProcessedRow(rawRows[i])]
    IN  SortDaily(GroupsFrom(SortByTimestamp(processed)))

\* DataProcessor.process_wallet_transactions(wallet_address): with no raw
\* file it returns an empty table and writes nothing; otherwise it writes the
\* daily table to processed/transactions/{wallet}.csv.
ProcessWalletTransactions ==
    /\ p_pc = "ready"
    /\ runs < MaxRuns
    /\ runs' = runs + 1
    /\ prev_processed' = processed_file
    /\ IF raw_file = <<>>
       THEN UNCHANGED processed_file
       ELSE processed_file' = <<DailyAggregated(raw_file[1])>>
    /\ UNCHANGED <<collectorVars, metricsVars, raw_file, richlist_dir, price_file, p_pc,
                   price_data, richlist, now>>
    /\ UNCHANGED otherVars

\* Time passes between two runs.
Tick ==
    /\ p_pc = "ready"
    /\ runs >= 1
    /\ now < MaxClock
    /\ now' = now + 1
    /\ UNCHANGED <<collectorVars, metricsVars, fileVars, p_pc, price_data, richlist, runs,
                   prev_processed>>
    /\ UNCHANGED otherVars

\* The files a processing run finds, before a DataProcessor is constructed.
NormalizeInit ==
    /\ tie_order \in TieOrders
    /\ raw_file \in RawFiles
    /\ richlist_dir \in RichlistDirs
    /\ price_file \in PriceFiles
    /\ processed_file = <<>>
    /\ p_pc = "new"
    /\ price_data = <<>>
    /\ richlist = <<>>
    /\ now = 1
    /\ runs = 0
    /\ prev_processed = <<>>

\* No processing run.
NormalizeIdle ==
    /\ tie_order = "kept"
    /\ raw_file = <<>>
    /\ richlist_dir = [exists |-> FALSE, files |-> {}]
    /\ price_file = <<>>
    /\ processed_file = <<>>
    /\ p_pc = "idle"
    /\ price_data = <<>>
    /\ richlist = <<>>
    /\ now = 1
    /\ runs = 0
    /\ prev_processed = <<>>

NormalizeNext ==
    \/ ConstructProcessor
    \/ ConstructProcessorFails
    \/ ProcessWalletTransactions
    \/ Tick

\* ---------------------------------------------------------- metrics engine
\* WalletMetricsCalculator._load_current_btc_price: the Price of the last row
\* of the price file; 0 when the file is missing (FileNotFoundError) or has
\* no row (IndexError).
LoadCurrentBtcPrice(file) ==
    IF file = <<>> THEN 0
    ELSE IF file[1] = <<>> THEN 0
    ELSE file[1][Len(file[1])].Price

\* WalletMetricsCalculator.__init__
ConstructMetrics ==
    /\ m_pc = "new"
    /\ current_btc_price' = LoadCurrentBtcPrice(price_file)
    /\ m_pc' = "ready"
    /\ UNCHANGED <<collectorVars, fileVars, processorVars, wallet_metrics,
                   summary_file>>
    /\ UNCHANGED otherVars

Zero == [num |-> 0, den |-> 1]

RECURSIVE MinSeq(_)
MinSeq(s) == IF Len(s) = 1 THEN s[1] ELSE Min(s[1], MinSeq(Tail(s)))

\* (amounts * prices).sum(): a product with a NaN price is NaN and is
\* skipped by the sum.
SumProducts(amounts, prices) ==
    SumSeq(Known([i \in 1..Len(amounts) |->
        IF prices[i] # <<>> THEN <<amounts[i] * prices[i][1]>> ELSE <<>>]))

AbsColumn(rows, f) == [i \in 1..Len(rows) |-> Abs(rows[i][f])]

\* metrics.py:87-88: len(trades) / (days / 30) when days / 30 > 0, else 0.
TradesPerMonth(trade_count, days) ==
    IF days > 0 THEN [num |-> trade_count * 30, den |-> days] ELSE Zero

\* DetermineTraderType asking for the active trader before the new wallet.
DetermineTraderType_FrequencyFirst(trades_per_month, significant_sells, activity_days) ==
    IF /\ trades_per_month.num >= TRADE_FREQUENCY_THRESHOLD * trades_per_month.den
       /\ significant_sells >= 3
    THEN "Active Trader"
    ELSE IF activity_days < HOLDING_PERIOD_THRESHOLD THEN "New Wallet"
    ELSE IF significant_sells >= 1 THEN "Occasional Trader"
    ELSE "Holder"

\* metrics.py:165-176
DetermineTraderType(trades_per_month, significant_sells, activity_days) ==
    IF activity_days < HOLDING_PERIOD_THRESHOLD THEN "New Wallet"
    ELSE IF /\ trades_per_month.num >= TRADE_FREQUENCY_THRESHOLD * trades_per_month.den
            /\ significant_sells >= 3
         THEN "Active Trader"
    ELSE IF significant_sells >= 1 THEN "Occasional Trader"
    ELSE "Holder"

\* IsSignificant taking an unset fraction for a significant one.
IsSignificant_UnsetCounts(row) ==
    \/ row.portfolio_pct = <<>>
    \/ row.portfolio_pct[1].num * SIGNIFICANT_SELL_THRESHOLD.den
           >= SIGNIFICANT_SELL_THRESHOLD.num * row.portfolio_pct[1].den

\* metrics.py:92: portfolio_pct >= SIGNIFICANT_SELL_THRESHOLD, false for NaN.
IsSignificant(row) ==
    /\ row.portfolio_pct # <<>>
    /\ row.portfolio_pct[1].num * SIGNIFICANT_SELL_THRESHOLD.den
           >= SIGNIFICANT_SELL_THRESHOLD.num * row.portfolio_pct[1].den

\* WalletMetricsCalculator._analyze_trading_pattern
AnalyzeTradingPattern(df) ==
    LET trades == SelectSeq(df, LAMBDA r : r.transaction_type \in {"buy", "sell"})
        buys == SelectSeq(trades, LAMBDA r : r.transaction_type = "buy")
        sells == SelectSeq(trades, LAMBDA r : r.transaction_type = "sell")
        buy_volume == SumSeq(AbsColumn(buys, "amount_btc"))
        sell_volume == SumSeq(AbsColumn(sells, "amount_btc"))
        days == MaxSeq(Column(df, "timestamp")) - MinSeq(Column(df, "timestamp"))
        trades_per_month == TradesPerMonth(Len(trades), days)
        significant_sells == SelectSeq(sells, IsSignificant)
    IN  [buy_count |-> Len(buys),
         sell_count |-> Len(sells),
         total_buy_volume |-> buy_volume,
         total_sell_volume |-> sell_volume,
         avg_buy_size |->
             IF buys # <<>> THEN [num |-> buy_volume, den |-> Len(buys)] ELSE Zero,
         avg_sell_size |->
             IF sells # <<>> THEN [num |-> sell_volume, den |-> Len(sells)] ELSE Zero,
         trades_per_month |-> trades_per_month,
         significant_sells_count |-> Len(significant_sells),
         trader_type |->
             DetermineTraderType(trades_per_month, Len(significant_sells), days)]

\* RoiOverall dividing whenever the net investment is not zero.
RoiOverall_AnyNonZero(net_investment, current_value) ==
    IF net_investment # 0
    THEN [num |-> (current_value - net_investment) * 100, den |-> net_investment]
    ELSE Zero

\* metrics.py:131-136
RoiOverall(net_investment, current_value) ==
    IF net_investment > 0
    THEN [num |-> (current_value - net_investment) * 100, den |-> net_investment]
    ELSE Zero

\* A float metric: NaN, or the quotient num / den.
NaN == [nan |-> TRUE, num |-> 0, den |-> 1]

Quotient(n, d) == [nan |-> FALSE, num |-> n, den |-> d]

\* metrics.py:151, 157: df['balance_btc'] * df['price_usd'], NaN (unset) on
\* the days without price.
PortfolioValues(df) ==
    [i \in 1..Len(df) |->
        IF df[i].price_usd # <<>>
        THEN <<df[i].balance_btc * df[i].price_usd[1]>>
        ELSE <<>>]

\* metrics.py:152-153: std() / mean() * 100 over the values that are set
\* (ddof = 1: NaN for a single value).  The number is a square root; what is
\* kept is its square, n (n S2 - S1^2) 100^2 / ((n - 1) S1^2).
Volatility(values) ==
    LET x == Known(values)
        n == Len(x)
        S1 == SumSeq(x)
        S2 == SumSeq([i \in 1..n |-> x[i] * x[i]])
    IN  IF n < 2 THEN NaN
        ELSE Quotient(10000 * n * (n * S2 - S1 * S1), (n - 1) * S1 * S1)

\* metrics.py:159: portfolio_values.expanding().max(), the greatest value set
\* so far, NaN while none is.
RollingMax(values) ==
    [i \in 1..Len(values) |->
        LET x == Known(SubSeq(values, 1, i))
        IN  IF x = <<>> THEN <<>> ELSE <<MaxSeq(x)>>]

\* metrics.py:160: (portfolio_values - rolling_max) / rolling_max * 100, NaN
\* where the value is NaN and where the quotient is 0 / 0.
Drawdowns(values) ==
    LET rolling_max == RollingMax(values) IN
    [i \in 1..Len(values) |->
        IF values[i] = <<>> \/ rolling_max[i] = <<>> THEN <<>>
        ELSE IF rolling_max[i][1] = 0 THEN <<>>
        ELSE <<[num |-> (values[i][1] - rolling_max[i][1]) * 100,
                den |-> rolling_max[i][1]]>>]

\* metrics.py:161: abs(drawdowns.min()), the minimum over the drawdowns that
\* are set, NaN when none is.
MaxDrawdown(values) ==
    LET d == Known(Drawdowns(values)) IN
    IF d = <<>> THEN NaN
    ELSE LET m == CHOOSE a \in Range(d) :
                      \A b \in Range(d) : a.num * b.den <= b.num * a.den
         IN  Quotient(Abs(m.num), m.den)

\* WalletMetricsCalculator._calculate_performance_metrics (<<>> for a key
\* that is not set).
CalculatePerformanceMetrics(df) ==
    LET buys == SelectSeq(df, LAMBDA r : r.transaction_type = "buy")
        sells == SelectSeq(df, LAMBDA r : r.transaction_type = "sell")
        trades == SelectSeq(df, LAMBDA r : r.transaction_type \in {"buy", "sell"})
        total_money_in ==
            SumProducts(Column(buys, "amount_btc"), Column(buys, "price_usd"))
        total_money_out ==
            IF sells # <<>>
            THEN SumProducts(AbsColumn(sells, "amount_btc"), Column(sells, "price_usd"))
            ELSE 0
        net_investment == total_money_in - total_money_out
        current_value == df[Len(df)].balance_btc * current_btc_price
        portfolio_values == PortfolioValues(df)
    IN  [roi_overall |->
             IF buys # <<>> THEN RoiOverall(net_investment, current_value) ELSE Zero,
         realized_pnl_usd |->
             IF trades # <<>>
             THEN <<SumProducts(Column(trades, "amount_btc"), Column(trades, "price_usd"))>>
             ELSE <<>>,
         portfolio_value_volatility |->
             IF /\ Len(portfolio_values) > 1
                /\ Known(portfolio_values) # <<>>
                /\ SumSeq(Known(portfolio_values)) > 0
             THEN <<Volatility(portfolio_values)>>
             ELSE <<>>,
         max_drawdown_pct |->
             IF Len(portfolio_values) > 1
             THEN <<MaxDrawdown(portfolio_values)>>
             ELSE <<>>]

\* metrics.py:46-63: the metrics dict of one wallet.
Metrics(address, df) ==
    LET pattern == AnalyzeTradingPattern(df)
        performance == CalculatePerformanceMetrics(df)
    IN  [wallet_address |-> address,
         rank |-> df[1].rank,
         first_transaction |-> MinSeq(Column(df, "timestamp")),
         last_transaction |-> MaxSeq(Column(df, "timestamp")),
         total_transactions |-> Len(df),
         active_days |-> MaxSeq(Column(df, "timestamp")) - MinSeq(Column(df, "timestamp")),
         current_balance_btc |-> df[Len(df)].balance_btc,
         last_updated |-> now,
         buy_count |-> pattern.buy_count,
         sell_count |-> pattern.sell_count,
         total_buy_volume |-> pattern.total_buy_volume,
         total_sell_volume |-> pattern.total_sell_volume,
         avg_buy_size |-> pattern.avg_buy_size,
         avg_sell_size |-> pattern.avg_sell_size,
         trades_per_month |-> pattern.trades_per_month,
         significant_sells_count |-> pattern.significant_sells_count,
         trader_type |-> pattern.trader_type,
         roi_overall |-> performance.roi_overall,
         realized_pnl_usd |-> performance.realized_pnl_usd,
         portfolio_value_volatility |-> performance.portfolio_value_volatility,
         max_drawdown_pct |-> performance.max_drawdown_pct]

\* UpsertSummary without the filter of metrics.py:191.
UpsertSummary_AppendOnly(summary, address, metrics) ==
    IF summary # <<>>
    THEN <<Append(summary[1], metrics)>>
    ELSE <<<<metrics>>>>

\* WalletMetricsCalculator._save_wallet_metrics, the summary file: the rows of
\* the other wallets, then the new row.
UpsertSummary(summary, address, metrics) ==
    IF summary # <<>>
    THEN <<Append(SelectSeq(summary[1], LAMBDA r : r.wallet_address # address), metrics)>>
    ELSE <<<<metrics>>>>

\* WalletMetricsCalculator.calculate_wallet_metrics(wallet_address): with no
\* processed file it returns {} and writes nothing; otherwise it computes the
\* metrics and saves them to the wallet's file and to the summary.
CalculateWalletMetrics ==
    /\ m_pc = "ready"
    /\ IF processed_file = <<>>
       THEN UNCHANGED <<wallet_metrics, summary_file>>
       ELSE LET metrics == Metrics(wallet_address, processed_file[1]) IN
            /\ wallet_metrics' = <<metrics>>
            /\ summary_file' = UpsertSummary(summary_file, wallet_address, metrics)
    /\ UNCHANGED <<collectorVars, fileVars, processorVars, m_pc, current_btc_price>>
    /\ UNCHANGED otherVars

\* The state a metrics run starts from: no engine, no metrics file.
MetricsInit ==
    /\ m_pc = "new"
    /\ current_btc_price = 0
    /\ wallet_metrics = <<>>
    /\ summary_file = <<>>

\* No metrics run.
MetricsIdle ==
    /\ m_pc = "idle"
    /\ current_btc_price = 0
    /\ wallet_metrics = <<>>
    /\ summary_file = <<>>

MetricsNext ==
    \/ ConstructMetrics
    \/ CalculateWalletMetrics

\* The price file is removed after a daily table was written with it and
\* before a metrics engine is constructed (by process_data.py:33 or by any
\* other caller of WalletMetricsCalculator()).
LosePriceFile ==
    /\ processed_file # <<>>
    /\ price_file # <<>>
    /\ m_pc = "new"
    /\ price_file' = <<>>
    /\ UNCHANGED <<raw_file, richlist_dir, processed_file>>
    /\ UNCHANGED <<collectorVars, processorVars, metricsVars, otherVars>>

\* ------------------------------------------------------- large balances
\* Satoshis of the first transaction of a wallet with a large balance: a
\* sell of 1 afterwards is 1%, 0.5%, 0.01% and 0.005% of what is left.
Deposits == {101, 201, 10001, 20001}

\* What can follow the history h of such a wallet: a buy of 1, a sell of 1,
\* a sell of the whole balance; time does not run backwards.
WhaleFollowers(h) ==
    LET lastTime == h[Len(h)].time
        lastBal == h[Len(h)].balance
    IN  {x \in Times \X {1, -1, 0 - lastBal} :
            x[1] >= lastTime /\ x[2] # 0 /\ lastBal + x[2] >= 0}

RECURSIVE WhaleLedgers(_)
\* The chronological histories of n transactions of such a wallet.
WhaleLedgers(n) ==
    IF n = 1 THEN {<<RawTx(1, SecondsPerDay, d, d)>> : d \in Deposits}
    ELSE UNION {{Append(h, RawTx(n, x[1], x[2], h[Len(h)].balance + x[2]))
                   : x \in WhaleFollowers(h)} : h \in WhaleLedgers(n - 1)}

\* The price table of these runs: a price for day 1 only.
WhalePrices == <<[Date |-> 1, Price |-> 10]>>

\* Their raw files, newest first.
WhaleFiles == {<<Reverse(h)>> : h \in UNION {WhaleLedgers(n) : n \in 1..MaxTx}}

\* ---------------------------------------------------- trader classification
\* Active-day spans around the new-wallet threshold.
Spans == {0, 10, HOLDING_PERIOD_THRESHOLD - 1, HOLDING_PERIOD_THRESHOLD,
          HOLDING_PERIOD_THRESHOLD + 1, 2 * HOLDING_PERIOD_THRESHOLD}

\* Trade counts that put the frequency below, at and above the active-trader
\* threshold for those spans.
TradeCounts == {0, 1, 9, 10, 11, 19, 20, 21}

\* The daily table of a wallet reduced to what the classification reads: a
\* table has at most one record a day, and a significant sell is a trade.
ClassifyInit ==
    /\ t_days \in Spans
    /\ t_trades \in {n \in TradeCounts : n <= t_days + 1}
    /\ t_sells \in {n \in 0..MaxSignificantSells : n <= t_trades}
    /\ t_type = ""

ClassifyIdle ==
    /\ t_days = 0
    /\ t_trades = 0
    /\ t_sells = 0
    /\ t_type = ""

\* metrics.py:86-100: the frequency is computed and the wallet classified.
Classify ==
    /\ t_type = ""
    /\ t_type' = DetermineTraderType(TradesPerMonth(t_trades, t_days), t_sells, t_days)
    /\ UNCHANGED <<t_days, t_trades, t_sells>>
    /\ UNCHANGED <<collectorVars, fileVars, processorVars, metricsVars>>
    /\ UNCHANGED <<summaryVars, batchVars, updaterVars, storageVars, sortVars,
                   pipelineVars>>

\* ------------------------------------------ metrics over several wallets
\* The wallets with a raw history.
Wallets == {"w1", "w2", "w3"}

\* The price file of these runs: day 1 at 10, day 2 at 12.
SummaryPrices == <<[Date |-> 1, Price |-> 10], [Date |-> 2, Price |-> 12]>>

\* The raw histories of these runs: a buy of 2 on day 1, alone or followed on
\* day 2 by a sell or a buy of 1.
SummaryLedgers ==
    {h \in Ledgers(1) \cup Ledgers(2) :
        /\ \A i \in 1..Len(h) : h[i].time = i * SecondsPerDay
        /\ h[1].result = 2
        /\ Len(h) = 2 => h[2].result \in {-1, 1}}

\* process_wallet_transactions(w): the daily table of wallet w.
DailyAggregatedOf(w, rawRows) ==
    LET table == DailyAggregated(rawRows)
    IN  [i \in 1..Len(table) |->
            [table[i] EXCEPT !.wallet_address = w, !.rank = RankOf(w)]]

\* DataProcessor.process_wallet_transactions(w) on the raw history the
\* collector left for w.
ProcessWalletTransactionsOf(w) ==
    /\ \A v \in Wallets : w_pc[v] = "idle"
    /\ \E h \in SummaryLedgers :
           processed_files' =
               [processed_files EXCEPT ![w] = <<DailyAggregatedOf(w, Reverse(h))>>]
    /\ UNCHANGED <<metrics_files, replaced, w_pc, w_metrics, w_summary>>
    /\ UNCHANGED <<collectorVars, fileVars, processorVars, metricsVars, classifyVars>>
    /\ UNCHANGED <<batchVars, updaterVars, storageVars, sortVars,
                   pipelineVars>>

\* WalletMetricsCalculator.calculate_wallet_metrics(w), the whole call.
CalculateWalletMetricsOf(w) ==
    /\ \A v \in Wallets : w_pc[v] = "idle"
    /\ IF processed_files[w] = <<>>
       THEN UNCHANGED <<metrics_files, replaced, summary_file>>
       ELSE LET metrics == Metrics(w, processed_files[w][1]) IN
            /\ metrics_files' = [metrics_files EXCEPT ![w] = <<metrics>>]
            /\ replaced' =
                   IF metrics_files[w] # <<>> /\ metrics_files[w][1] # metrics
                   THEN replaced \cup {w} ELSE replaced
            /\ summary_file' = UpsertSummary(summary_file, w, metrics)
    /\ UNCHANGED <<processed_files, w_pc, w_metrics, w_summary>>
    /\ UNCHANGED <<collectorVars, fileVars, processorVars, classifyVars, batchVars>>
    /\ UNCHANGED <<updaterVars, storageVars, sortVars,
                   pipelineVars>>
    /\ UNCHANGED <<m_pc, current_btc_price, wallet_metrics>>

\* A worker starts calculate_wallet_metrics(w): the metrics are computed and
\* the wallet's own file is written (metrics.py:42-66, 180-185).
BeginSave(w) ==
    /\ w_pc[w] = "idle"
    /\ processed_files[w] # <<>>
    /\ LET metrics == Metrics(w, processed_files[w][1]) IN
       /\ metrics_files' = [metrics_files EXCEPT ![w] = <<metrics>>]
       /\ w_metrics' = [w_metrics EXCEPT ![w] = <<metrics>>]
    /\ w_pc' = [w_pc EXCEPT ![w] = "saving"]
    /\ UNCHANGED <<processed_files, replaced, w_summary>>
    /\ UNCHANGED <<collectorVars, fileVars, processorVars, metricsVars, classifyVars>>
    /\ UNCHANGED <<batchVars, updaterVars, storageVars, sortVars,
                   pipelineVars>>

\* metrics.py:189-190: the worker reads the summary file, if there is one.
ReadSummary(w) ==
    /\ w_pc[w] = "saving"
    /\ w_summary' = [w_summary EXCEPT ![w] = summary_file]
    /\ w_pc' = [w_pc EXCEPT ![w] = "read"]
    /\ UNCHANGED <<processed_files, metrics_files, replaced, w_metrics>>
    /\ UNCHANGED <<collectorVars, fileVars, processorVars, metricsVars, classifyVars>>
    /\ UNCHANGED <<batchVars, updaterVars, storageVars, sortVars,
                   pipelineVars>>

\* metrics.py:191-194: the rows of the other wallets, then the new row.
FilterAppend(w) ==
    /\ w_pc[w] = "read"
    /\ w_summary' = [w_summary EXCEPT ![w] = UpsertSummary(w_summary[w], w, w_metrics[w][1])]
    /\ w_pc' = [w_pc EXCEPT ![w] = "merged"]
    /\ UNCHANGED <<processed_files, metrics_files, replaced, w_metrics>>
    /\ UNCHANGED <<collectorVars, fileVars, processorVars, metricsVars, classifyVars>>
    /\ UNCHANGED <<batchVars, updaterVars, storageVars, sortVars,
                   pipelineVars>>

\* metrics.py:196: summary_df.to_csv(summary_file)
WriteSummary(w) ==
    /\ w_pc[w] = "merged"
    /\ summary_file' = w_summary[w]
    /\ w_pc' = [w_pc EXCEPT ![w] = "done"]
    /\ UNCHANGED <<processed_files, metrics_files, replaced, w_metrics, w_summary>>
    /\ UNCHANGED <<collectorVars, fileVars, processorVars, classifyVars, batchVars>>
    /\ UNCHANGED <<updaterVars, storageVars, sortVars,
                   pipelineVars>>
    /\ UNCHANGED <<m_pc, current_btc_price, wallet_metrics>>

\* No metrics run over several wallets.
SummaryIdle ==
    /\ processed_files = [w \in Wallets |-> <<>>]
    /\ metrics_files = [w \in Wallets |-> <<>>]
    /\ replaced = {}
    /\ w_pc = [w \in Wallets |-> "idle"]
    /\ w_metrics = [w \in Wallets |-> <<>>]
    /\ w_summary = [w \in Wallets |-> <<>>]

\* A DataProcessor and a WalletMetricsCalculator constructed on the price file
\* SummaryPrices and the two richlist snapshots; nothing processed yet.
EnginesReady ==
    /\ tie_order = "kept"
    /\ raw_file = <<>>
    /\ richlist_dir \in {d \in RichlistDirs : Cardinality(d.files) = 2}
    /\ price_file = <<SummaryPrices>>
    /\ processed_file = <<>>
    /\ p_pc = "ready"
    /\ price_data = price_file[1]
    /\ richlist = LoadRichlist(richlist_dir)
    /\ now = 1
    /\ runs = 0
    /\ prev_processed = <<>>
    /\ m_pc = "ready"
    /\ current_btc_price = LoadCurrentBtcPrice(price_file)
    /\ wallet_metrics = <<>>
    /\ summary_file = <<>>

\* ------------------------------------------------------------ batch loops
\* The three loops over wallets: run_collection.py:46-53 over the richlist
\* addresses, DataProcessor.process_all_wallets over the raw files and
\* WalletMetricsCalculator.process_all_wallets over the processed files.
BatchKinds == {"collection", "normalization", "metrics"}

\* The orders in which a loop can meet the wallets of a set.
Orders(S) ==
    {q \in UNION {[1..n -> S] : n \in 0..Cardinality(S)} :
        /\ Len(q) = Cardinality(S)
        /\ \A i, j \in 1..Len(q) : q[i] = q[j] => i = j}

\* The try block of the iteration completes: the loop goes on.
BatchAttemptSucceeds ==
    /\ b_pc = "loop"
    /\ b_next <= Len(b_input)
    /\ b_input[b_next] \notin b_faulty
    /\ b_attempts' = [b_attempts EXCEPT ![b_input[b_next]] = @ + 1]
    /\ b_next' = b_next + 1
    /\ UNCHANGED <<b_kind, b_input, b_faulty, b_logged, b_pc>>
    /\ UNCHANGED <<collectorVars, fileVars, processorVars, metricsVars>>
    /\ UNCHANGED <<classifyVars, summaryVars, updaterVars, storageVars, sortVars,
                   pipelineVars>>

\* BatchAttemptFails with no except clause: the exception leaves the loop.
BatchAttemptFails_Propagates ==
    /\ b_pc = "loop"
    /\ b_next <= Len(b_input)
    /\ b_input[b_next] \in b_faulty
    /\ b_attempts' = [b_attempts EXCEPT ![b_input[b_next]] = @ + 1]
    /\ b_pc' = "aborted"
    /\ UNCHANGED <<b_kind, b_input, b_faulty, b_next, b_logged>>
    /\ UNCHANGED <<collectorVars, fileVars, processorVars, metricsVars>>
    /\ UNCHANGED <<classifyVars, summaryVars, updaterVars, storageVars, sortVars,
                   pipelineVars>>

\* The try block raises: except Exception logs the error and the loop goes on
\* with the next wallet.
BatchAttemptFails ==
    /\ b_pc = "loop"
    /\ b_next <= Len(b_input)
    /\ b_input[b_next] \in b_faulty
    /\ b_attempts' = [b_attempts EXCEPT ![b_input[b_next]] = @ + 1]
    /\ b_logged' = Append(b_logged, b_input[b_next])
    /\ b_next' = b_next + 1
    /\ UNCHANGED <<b_kind, b_input, b_faulty, b_pc>>
    /\ UNCHANGED <<collectorVars, fileVars, processorVars, metricsVars>>
    /\ UNCHANGED <<classifyVars, summaryVars, updaterVars, storageVars, sortVars,
                   pipelineVars>>

\* The iterator is exhausted: the for statement ends.
BatchEnds ==
    /\ b_pc = "loop"
    /\ b_next > Len(b_input)
    /\ b_pc' = "done"
    /\ UNCHANGED <<b_kind, b_input, b_faulty, b_next, b_attempts, b_logged>>
    /\ UNCHANGED <<collectorVars, fileVars, processorVars, metricsVars>>
    /\ UNCHANGED <<classifyVars, summaryVars, updaterVars, storageVars, sortVars,
                   pipelineVars>>

\* A loop starts over some of the wallets, in some order; the handling of
\* some of them will raise.
BatchInit ==
    /\ b_kind \in BatchKinds
    /\ b_input \in UNION {Orders(S) : S \in SUBSET Wallets}
    /\ b_faulty \in SUBSET Range(b_input)
    /\ b_next = 1
    /\ b_attempts = [w \in Wallets |-> 0]
    /\ b_logged = <<>>
    /\ b_pc = "loop"

BatchIdle ==
    /\ b_kind = ""
    /\ b_input = <<>>
    /\ b_faulty = {}
    /\ b_next = 1
    /\ b_attempts = [w \in Wallets |-> 0]
    /\ b_logged = <<>>
    /\ b_pc = "idle"

BatchNext ==
    \/ BatchAttemptSucceeds
    \/ BatchAttemptFails
    \/ BatchEnds

\* ---------------------------------------------------------- price updater
\* The day on which the updater is first observed.
FirstDay == InitialWindow + 2

\* The prices the price API quotes.
Quotes == {10, 12}

\* The price files an update run can find: none, or rows for some of the last
\* three days at the prices 9, 10 and 11, oldest first (as the updater writes
\* them) or newest first (as the exchange's export lists them).
UpdaterFiles ==
    LET days == (FirstDay - 2)..FirstDay
        Rows(S) == [i \in 1..Cardinality(S) |->
                       [Date |-> CHOOSE d \in S : Cardinality({e \in S : e < d}) = i - 1,
                        Price |-> 11 - (FirstDay -
                            (CHOOSE d \in S : Cardinality({e \in S : e < d}) = i - 1))]]
    IN  {<<>>} \cup UNION {{<<Rows(S)>>, <<Reverse(Rows(S))>>} : S \in (SUBSET days) \ {{}}}

\* BTC_price_collector.py:26, 31: existing_df['Date'].max()
LastDate(existing_df) == MaxSeq(Column(existing_df, "Date"))

\* BTC_price_collector.py:34: (datetime.now() - last_date).days; with no
\* file last_date is now - 30 days.
DaysToFetch(file) ==
    IF file # <<>> THEN today - LastDate(file[1]) ELSE InitialWindow

\* The answer to market_chart?days=n&interval=daily, as new_df: one point for
\* each of the days today-n .. today at the quote q and, when `current` is set,
\* one more point for today (the price at the time of the request).
NewData(n, q, current) ==
    [i \in 1..(n + 1) |-> [Date |-> today - n + i - 1, Price |-> q]]
        \o (IF current THEN <<[Date |-> today, Price |-> q]>> ELSE <<>>)

\* NewRows keeping the last known date too.
NewRows_FromLastDate(new_df, last_date) ==
    SelectSeq(new_df, LAMBDA r : r.Date >= last_date)

\* BTC_price_collector.py:74: new_df[new_df['Date'] > last_date]
NewRows(new_df, last_date) ==
    SelectSeq(new_df, LAMBDA r : r.Date > last_date)

RECURSIVE InsertByDate(_, _)
InsertByDate(t, r) ==
    IF t = <<>> THEN <<r>>
    ELSE IF t[Len(t)].Date <= r.Date THEN Append(t, r)
         ELSE Append(InsertByDate(SubSeq(t, 1, Len(t) - 1), r), t[Len(t)])

RECURSIVE SortByDate(_)
\* final_df.sort_values('Date')
SortByDate(t) ==
    IF t = <<>> THEN <<>>
    ELSE InsertByDate(SortByDate(SubSeq(t, 1, Len(t) - 1)), t[Len(t)])

\* BTC_price_collector.py:73-86: the table that is written.
FinalTable(file, new_df) ==
    SortByDate(IF file # <<>> /\ file[1] # <<>>
               THEN file[1] \o NewRows(new_df, LastDate(file[1]))
               ELSE new_df)

\* update_price_data when days_to_fetch > 0 and the request succeeds.
UpdatePriceData ==
    /\ u_runs < MaxUpdates
    /\ DaysToFetch(price_file) > 0
    /\ \E q \in Quotes, current \in BOOLEAN :
           price_file' =
               <<FinalTable(price_file, NewData(DaysToFetch(price_file) + 1, q, current))>>
    /\ u_prev' = price_file
    /\ u_runs' = u_runs + 1
    /\ u_outcome' = "updated"
    /\ UNCHANGED <<raw_file, richlist_dir, processed_file, today>>
    /\ UNCHANGED <<collectorVars, processorVars, metricsVars>>
    /\ UNCHANGED <<classifyVars, summaryVars, batchVars, storageVars, sortVars,
                   pipelineVars>>

\* update_price_data when days_to_fetch <= 0: "already up to date", return.
UpdatePriceDataUpToDate ==
    /\ u_runs < MaxUpdates
    /\ DaysToFetch(price_file) <= 0
    /\ u_prev' = price_file
    /\ u_runs' = u_runs + 1
    /\ u_outcome' = "up_to_date"
    /\ UNCHANGED <<fileVars, today>>
    /\ UNCHANGED <<collectorVars, processorVars, metricsVars>>
    /\ UNCHANGED <<classifyVars, summaryVars, batchVars, storageVars, sortVars,
                   pipelineVars>>

\* update_price_data when the request or the parsing of its answer raises:
\* the error is logged and raised again, nothing is written.
UpdatePriceDataFails ==
    /\ u_runs < MaxUpdates
    /\ DaysToFetch(price_file) > 0
    /\ u_prev' = price_file
    /\ u_runs' = u_runs + 1
    /\ u_outcome' = "failed"
    /\ UNCHANGED <<fileVars, today>>
    /\ UNCHANGED <<collectorVars, processorVars, metricsVars>>
    /\ UNCHANGED <<classifyVars, summaryVars, batchVars, storageVars, sortVars,
                   pipelineVars>>

\* Midnight passes between two runs.
DayPasses ==
    /\ today < FirstDay + MaxDaysPassed
    /\ today' = today + 1
    /\ UNCHANGED <<u_runs, u_prev, u_outcome>>
    /\ UNCHANGED <<collectorVars, fileVars, processorVars, metricsVars>>
    /\ UNCHANGED <<classifyVars, summaryVars, batchVars, storageVars, sortVars,
                   pipelineVars>>

UpdaterInit ==
    /\ today = FirstDay
    /\ u_runs = 0
    /\ u_prev = <<>>
    /\ u_outcome = ""

UpdaterIdle ==
    /\ today = FirstDay
    /\ u_runs = 0
    /\ u_prev = <<>>
    /\ u_outcome = ""

UpdaterNext ==
    \/ UpdatePriceData
    \/ UpdatePriceDataUpToDate
    \/ UpdatePriceDataFails
    \/ DayPasses

\* ----------------------------------------------------------------- storage
\* The tables a collection returns for an address: no row (the API failed or
\* the address has no transaction) or a history of one or two transactions,
\* newest first.
CollectedTables ==
    {Reverse(h) : h \in {g \in Ledgers(0) \cup Ledgers(1) \cup Ledgers(2) :
                            \A i \in 1..Len(g) : g[i].time % SecondsPerDay = 0}}

\* DataStorage.save_wallet_transactions(address, data): nothing is written
\* for an empty table; otherwise the file is replaced by the table.
SaveWalletTransactions ==
    /\ st_pc = "ready"
    /\ \E data \in CollectedTables :
           /\ st_data' = data
           /\ raw_file' = IF data = <<>> THEN raw_file ELSE <<data>>
    /\ st_pc' = "saved"
    /\ UNCHANGED <<richlist_dir, price_file, processed_file, st_loaded>>
    /\ UNCHANGED <<collectorVars, processorVars, metricsVars>>
    /\ UNCHANGED <<classifyVars, summaryVars, batchVars, updaterVars, sortVars,
                   pipelineVars>>

\* DataStorage.get_wallet_transactions(address): an empty table when there
\* is no file, else the rows of the file.
GetWalletTransactions ==
    /\ st_pc = "saved"
    /\ st_loaded' = IF raw_file = <<>> THEN <<>> ELSE raw_file[1]
    /\ st_pc' = "loaded"
    /\ UNCHANGED <<fileVars, st_data>>
    /\ UNCHANGED <<collectorVars, processorVars, metricsVars>>
    /\ UNCHANGED <<classifyVars, summaryVars, batchVars, updaterVars, sortVars,
                   pipelineVars>>

\* A DataStorage over a directory in which an earlier collection left a file
\* for the address, or none.
StorageInit ==
    /\ st_pc = "ready"
    /\ st_data = <<>>
    /\ st_loaded = <<>>

StorageIdle ==
    /\ st_pc = "idle"
    /\ st_data = <<>>
    /\ st_loaded = <<>>

StorageNext ==
    \/ SaveWalletTransactions
    \/ GetWalletTransactions

\* ----------------------------------------------------------- daily pipeline
\* scripts/WhaleWatcher.py:95-99: the scripts of the pipeline, in the order
\* they are run.
Scripts == <<"run_collection.py", "process_data.py", "run_alerts.py">>

\* What a script does inside the try block of its main, step by step.
Steps(script) ==
    IF script = "run_collection.py"
    THEN <<"price_update", "richlist", "transactions">>
    ELSE IF script = "process_data.py"
    THEN <<"normalization", "metrics">>
    ELSE <<"alerts">>

\* The script that is running.
Running == pl_started[Len(pl_started)]

\* The return code of a script in which a step raised: run_collection.py and
\* process_data.py log the error and return from main (run_collection.py:55-56,
\* process_data.py:37-38); run_alerts.py logs it and raises it again
\* (run_alerts.py:45-47).
ReturnCodeAfterError(script) ==
    IF script = "run_alerts.py" THEN 1 ELSE 0

\* run_command from process.wait() on, and the loop of main after it: a return
\* code other than 0 is raised as an exception, which main logs before
\* sys.exit(1); otherwise the next script is started, and after the last one
\* the pipeline has completed.
Returned(return_code) ==
    /\ pl_exited' = Append(pl_exited, return_code)
    /\ IF return_code # 0
       THEN /\ pl_pc' = "failed"
            /\ pl_status' = <<1>>
            /\ pl_step' = 0
            /\ UNCHANGED pl_started
       ELSE IF Len(pl_started) < Len(Scripts)
       THEN /\ pl_started' = Append(pl_started, Scripts[Len(pl_started) + 1])
            /\ pl_step' = 1
            /\ UNCHANGED <<pl_pc, pl_status>>
       ELSE /\ pl_pc' = "done"
            /\ pl_status' = <<0>>
            /\ pl_step' = 0
            /\ UNCHANGED pl_started

\* WhaleWatcher.main up to the first Popen.
PipelineStarts ==
    /\ pl_pc \in {"idle", "done", "failed"}
    /\ pl_runs < MaxPipelineRuns
    /\ pl_runs' = pl_runs + 1
    /\ pl_pc' = "running"
    /\ pl_started' = <<Scripts[1]>>
    /\ pl_exited' = <<>>
    /\ pl_step' = 1
    /\ pl_errors' = <<>>
    /\ pl_status' = <<>>
    /\ UNCHANGED <<collectorVars, fileVars, processorVars, metricsVars>>
    /\ UNCHANGED <<classifyVars, summaryVars, batchVars, updaterVars, storageVars, sortVars>>

\* A step of the running script succeeds and is not its last one.
ScriptStepSucceeds ==
    /\ pl_pc = "running"
    /\ pl_step >= 1
    /\ pl_step < Len(Steps(Running))
    /\ pl_step' = pl_step + 1
    /\ UNCHANGED <<pl_pc, pl_runs, pl_started, pl_exited, pl_errors, pl_status>>
    /\ UNCHANGED <<collectorVars, fileVars, processorVars, metricsVars>>
    /\ UNCHANGED <<classifyVars, summaryVars, batchVars, updaterVars, storageVars, sortVars>>

\* The last step of the running script succeeds: the script exits with 0.
ScriptCompletes ==
    /\ pl_pc = "running"
    /\ pl_step = Len(Steps(Running))
    /\ Returned(0)
    /\ UNCHANGED <<pl_runs, pl_errors>>
    /\ UNCHANGED <<collectorVars, fileVars, processorVars, metricsVars>>
    /\ UNCHANGED <<classifyVars, summaryVars, batchVars, updaterVars, storageVars, sortVars>>

\* A step of the running script raises inside the try block of its main.
ScriptStepRaises ==
    /\ pl_pc = "running"
    /\ pl_step >= 1
    /\ pl_errors' = Append(pl_errors,
                           [script |-> Running, step |-> Steps(Running)[pl_step]])
    /\ Returned(ReturnCodeAfterError(Running))
    /\ UNCHANGED pl_runs
    /\ UNCHANGED <<collectorVars, fileVars, processorVars, metricsVars>>
    /\ UNCHANGED <<classifyVars, summaryVars, batchVars, updaterVars, storageVars, sortVars>>

\* The running script raises before the try block of its main is entered (an
\* import that fails, setup_logging): the interpreter exits with 1.
ScriptCrashes ==
    /\ pl_pc = "running"
    /\ pl_step = 1
    /\ pl_errors' = Append(pl_errors, [script |-> Running, step |-> "startup"])
    /\ Returned(1)
    /\ UNCHANGED pl_runs
    /\ UNCHANGED <<collectorVars, fileVars, processorVars, metricsVars>>
    /\ UNCHANGED <<classifyVars, summaryVars, batchVars, updaterVars, storageVars, sortVars>>

\* No pipeline run.
PipelineIdle ==
    /\ pl_pc = "idle"
    /\ pl_runs = 0
    /\ pl_started = <<>>
    /\ pl_exited = <<>>
    /\ pl_step = 0
    /\ pl_errors = <<>>
    /\ pl_status = <<>>

PipelineNext ==
    \/ PipelineStarts
    \/ ScriptStepSucceeds
    \/ ScriptCompletes
    \/ ScriptStepRaises
    \/ ScriptCrashes

\* The components added to the first three, not running.
OtherIdle == ClassifyIdle /\ SummaryIdle /\ BatchIdle /\ UpdaterIdle /\ StorageIdle /\ PipelineIdle

InitCollect == CollectInit /\ NormalizeIdle /\ MetricsIdle /\ OtherIdle

SpecCollect == InitCollect /\ [][CollectNext]_vars

InitNormalize == CollectIdle /\ NormalizeInit /\ MetricsIdle /\ OtherIdle

SpecNormalize == InitNormalize /\ [][NormalizeNext]_vars

\* A processing run followed by a metrics run, with the richlist fixed.
InitMetrics ==
    /\ CollectIdle
    /\ NormalizeInit
    /\ richlist_dir.exists /\ Cardinality(richlist_dir.files) = 2
    /\ MetricsInit
    /\ OtherIdle

NextMetrics == NormalizeNext \/ MetricsNext

SpecMetrics == InitMetrics /\ [][NextMetrics]_vars

\* A processing run, then a metrics engine constructed over what it left,
\* with the price file still there or not.
NextPriceLoss == NormalizeNext \/ MetricsNext \/ LosePriceFile

SpecPriceLoss == InitMetrics /\ [][NextPriceLoss]_vars

\* A processing run followed by a metrics run for a wallet with a large
\* balance, the price file there or not.
InitSignificance ==
    /\ CollectIdle
    /\ tie_order = "kept"
    /\ raw_file \in WhaleFiles
    /\ richlist_dir = [exists |-> FALSE, files |-> {}]
    /\ price_file \in {<<>>, <<WhalePrices>>}
    /\ processed_file = <<>>
    /\ p_pc = "new"
    /\ price_data = <<>>
    /\ richlist = <<>>
    /\ now = 1
    /\ runs = 0
    /\ prev_processed = <<>>
    /\ MetricsInit
    /\ OtherIdle

SpecSignificance == InitSignificance /\ [][NextMetrics]_vars

\* The daily pipeline is run again and again.
InitPipeline ==
    /\ CollectIdle /\ NormalizeIdle /\ MetricsIdle
    /\ ClassifyIdle /\ SummaryIdle /\ BatchIdle /\ UpdaterIdle /\ StorageIdle
    /\ PipelineIdle

SpecPipeline == InitPipeline /\ [][PipelineNext]_vars

InitClassify ==
    /\ CollectIdle /\ NormalizeIdle /\ MetricsIdle
    /\ ClassifyInit /\ SummaryIdle /\ BatchIdle /\ UpdaterIdle /\ StorageIdle /\ PipelineIdle

NextClassify == Classify

SpecClassify == InitClassify /\ [][NextClassify]_vars

\* Wallets are normalized and their metrics computed, one call at a time.
InitSummary ==
    /\ CollectIdle /\ EnginesReady
    /\ ClassifyIdle /\ SummaryIdle /\ BatchIdle /\ UpdaterIdle /\ StorageIdle /\ PipelineIdle

NextSummary ==
    \E w \in Wallets :
        \/ ProcessWalletTransactionsOf(w)
        \/ CalculateWalletMetricsOf(w)

SpecSummary == InitSummary /\ [][NextSummary]_vars

\* Every wallet has a daily table; one worker a wallet saves its metrics, the
\* workers running concurrently.
InitWorkers ==
    /\ CollectIdle /\ EnginesReady /\ ClassifyIdle /\ BatchIdle /\ UpdaterIdle
    /\ StorageIdle /\ PipelineIdle
    /\ \E f \in [Wallets -> SummaryLedgers] :
           processed_files =
               [w \in Wallets |-> <<DailyAggregatedOf(w, Reverse(f[w]))>>]
    /\ metrics_files = [w \in Wallets |-> <<>>]
    /\ replaced = {}
    /\ w_pc = [w \in Wallets |-> "idle"]
    /\ w_metrics = [w \in Wallets |-> <<>>]
    /\ w_summary = [w \in Wallets |-> <<>>]

NextWorkers ==
    \E w \in Wallets :
        \/ BeginSave(w)
        \/ ReadSummary(w)
        \/ FilterAppend(w)
        \/ WriteSummary(w)

SpecWorkers == InitWorkers /\ [][NextWorkers]_vars

InitBatch ==
    /\ CollectIdle /\ NormalizeIdle /\ MetricsIdle
    /\ ClassifyIdle /\ SummaryIdle /\ BatchInit /\ UpdaterIdle /\ StorageIdle /\ PipelineIdle

SpecBatch == InitBatch /\ [][BatchNext]_vars

\* The price updater is run again and again over the days.
InitUpdater ==
    /\ CollectIdle /\ MetricsIdle
    /\ tie_order = "kept"
    /\ raw_file = <<>>
    /\ richlist_dir = [exists |-> FALSE, files |-> {}]
    /\ price_file \in UpdaterFiles
    /\ processed_file = <<>>
    /\ p_pc = "idle"
    /\ price_data = <<>>
    /\ richlist = <<>>
    /\ now = 1
    /\ runs = 0
    /\ prev_processed = <<>>
    /\ ClassifyIdle /\ SummaryIdle /\ BatchIdle /\ UpdaterInit /\ StorageIdle /\ PipelineIdle

SpecUpdater == InitUpdater /\ [][UpdaterNext]_vars

\* A table is saved for an address and read back.
InitStorage ==
    /\ CollectIdle /\ MetricsIdle
    /\ tie_order = "kept"
    /\ raw_file \in {<<>>} \cup {<<t>> : t \in CollectedTables \ {<<>>}}
    /\ richlist_dir = [exists |-> FALSE, files |-> {}]
    /\ price_file = <<>>
    /\ processed_file = <<>>
    /\ p_pc = "idle"
    /\ price_data = <<>>
    /\ richlist = <<>>
    /\ now = 1
    /\ runs = 0
    /\ prev_processed = <<>>
    /\ ClassifyIdle /\ SummaryIdle /\ BatchIdle /\ UpdaterIdle /\ StorageInit /\ PipelineIdle

SpecStorage == InitStorage /\ [][StorageNext]_vars

\* ---------------------------------------------------- collector: claims
\* C1: the sequence get_wallet_transactions returns never contains two records
\* with the same hash, whatever pages the ledger API answered with.
C1_NoRepeatedHash ==
    c_pc = "done" =>
        \A i \in 1..Len(transactions) : \A j \in (i + 1)..Len(transactions) :
            transactions[i].hash # transactions[j].hash

\* C2: when every request succeeded, every transaction that was in the ledger
\* when collection started is in the returned sequence.
C2_CompleteHistory ==
    (c_pc = "done" /\ outcome \in {"all_received", "duplicate"})
        => (1..ledger0) \subseteq Hashes(transactions)

C17_InvalidAddressRaises ==
    (outcome = "api_error" /\ requests = 1) => c_pc = "raised"

\* The records of all the pages received, in the order they were fetched.
Fetched == Flatten(pages)

\* The place in Fetched of the record of hash h that was fetched first.
FirstOccurrence(h) ==
    CHOOSE i \in 1..Len(Fetched) :
        /\ Fetched[i].hash = h
        /\ \A j \in 1..(i - 1) : Fetched[j].hash # h

\* C19: after the merge every retained record is the one that was fetched
\* first for its hash, and the retained records are in the order of their
\* first occurrence.
C19_FirstOccurrenceWins ==
    outcome = "duplicate" =>
        /\ \A k \in 1..Len(transactions) :
               transactions[k] = Fetched[FirstOccurrence(transactions[k].hash)]
        /\ \A k \in 1..(Len(transactions) - 1) :
               FirstOccurrence(transactions[k].hash)
                   < FirstOccurrence(transactions[k + 1].hash)

LastPage == pages[Len(pages)]

\* The hash of the last record of the page before the last one occurs in the
\* last page.
LastPageWraps ==
    /\ Len(pages) >= 2
    /\ \E i \in 1..Len(LastPage) :
           LastPage[i].hash = pages[Len(pages) - 1][limit].hash

\* C20 as stated: a page shorter than the page size ends the collection as
\* "all received", its records appended as they are, before any wrap check.
C20_ShortPageCheckedFirst ==
    (pages # <<>> /\ Len(LastPage) < limit) =>
        (outcome = "all_received" /\ transactions = Fetched)

\* C20 as amended: the wrap check comes first, whatever the length of the
\* page: a last page holding the previous page's last hash ends the
\* collection with the de-duplicating merge, and only a last page that does
\* not hold it, and is short, ends it as "all received".
C20_WrapCheckedFirst ==
    (c_pc = "done" /\ outcome \in {"duplicate", "all_received"}) =>
        IF LastPageWraps
        THEN /\ outcome = "duplicate"
             /\ Hashes(transactions) = Hashes(Fetched)
             /\ \A i \in 1..Len(transactions) : \A j \in (i + 1)..Len(transactions) :
                    transactions[i].hash # transactions[j].hash
        ELSE /\ outcome = "all_received"
             /\ Len(LastPage) < limit
             /\ transactions = Fetched

\* C20 happens: a short page that holds the previous page's last hash was
\* merged, not appended.
C20_Witness ==
    /\ c_pc = "done"
    /\ LastPageWraps
    /\ Len(LastPage) < limit
    /\ outcome = "duplicate"
    /\ Len(transactions) < Len(Fetched)

\* No transaction reached the ledger since the collection started and no
\* request failed.
StaticLedger == arrivals = 0 /\ outcome \in {"running", "all_received", "duplicate"}

\* C21: against a ledger that does not change, with every request answered,
\* the k-th request asks for offset 50 (k - 1) and receives that slice of the
\* ledger; the collection goes on exactly while pages are full and ends at
\* the first page shorter than 50 (an empty one when the ledger holds a
\* positive multiple of 50, the first one when it is empty); it returns the
\* ledger's transactions once each, in ledger order.
C21_StaticLedgerPagination ==
    StaticLedger =>
        /\ requests = Len(pages)
        /\ \A k \in 1..Len(pages) :
               /\ Len(pages[k]) = Max(0, Min(limit, ledger0 - limit * (k - 1)))
               /\ \A i \in 1..Len(pages[k]) :
                      pages[k][i].hash = ledger0 - limit * (k - 1) - i + 1
        /\ \A k \in 1..(Len(pages) - 1) : Len(pages[k]) = limit
        /\ c_pc = "fetch" =>
               /\ offset = limit * Len(pages)
               /\ \A k \in 1..Len(pages) : Len(pages[k]) = limit
        /\ c_pc = "done" =>
               /\ outcome = "all_received"
               /\ Len(LastPage) < limit
               /\ requests = (ledger0 \div limit) + 1
               /\ Len(transactions) = ledger0
               /\ \A i \in 1..ledger0 : transactions[i].hash = ledger0 - i + 1

\* C21 happens: a ledger of two full pages was collected with three requests,
\* the third answered with an empty page.
C21_Witness ==
    /\ StaticLedger
    /\ c_pc = "done"
    /\ ledger0 = 2 * limit
    /\ requests = 3
    /\ LastPage = <<>>
    /\ Len(transactions) = 2 * limit

\* C21 happens for the empty ledger: one request, the empty sequence.
C21_WitnessEmpty ==
    /\ StaticLedger
    /\ c_pc = "done"
    /\ ledger0 = 0
    /\ requests = 1
    /\ transactions = <<>>

\* --------------------------------------------------- normalizer: claims
\* The calendar day a Unix time falls on, by its definition.
CalendarDay(t) ==
    CHOOSE d \in 0..(MaxDay + 1) :
        d * SecondsPerDay <= t /\ t < (d + 1) * SecondsPerDay

RawRows == raw_file[1]

\* The calendar days on which the wallet has at least one raw transaction.
RawDays == {CalendarDay(RawRows[i].time) : i \in 1..Len(RawRows)}

\* The raw transactions of one calendar day, in file order.
RawOfDay(day) == SelectSeq(RawRows, LAMBDA tx : CalendarDay(tx.time) = day)

Written == processed_file # <<>>

Daily == processed_file[1]

\* The dates for which the price table holds a row.
PricedDays == {price_file[1][i].Date : i \in 1..Len(price_file[1])}

\* C4: the daily table holds exactly one record for every calendar day on
\* which the wallet has a raw transaction, and no other record.
C4_OneRecordPerDay ==
    Written =>
        /\ Len(Daily) = Cardinality(RawDays)
        /\ {Daily[i].timestamp : i \in 1..Len(Daily)} = RawDays
        /\ \A i \in 1..Len(Daily) : Daily[i].wallet_address = wallet_address

\* C4 happens: three transactions on two days gave two records.
C4_Witness ==
    /\ Written
    /\ Len(RawRows) = 3
    /\ Cardinality(RawDays) = 2
    /\ Len(Daily) = 2

\* C5: the type of a daily record is the sign of the day's net amount (the
\* sum of the raw amounts of that day) and its portfolio fraction, when set,
\* is |net amount| / ending balance x 100.
C5_TypeAndFractionFromNet ==
    Written =>
        \A i \in 1..Len(Daily) :
            LET net == SumSeq(Column(RawOfDay(Daily[i].timestamp), "result"))
                pct == Daily[i].portfolio_pct
            IN  /\ Daily[i].amount_btc = net
                /\ (net > 0) <=> (Daily[i].transaction_type = "buy")
                /\ (net < 0) <=> (Daily[i].transaction_type = "sell")
                /\ (net = 0) <=> (Daily[i].transaction_type = "transfer")
                /\ pct # <<>> =>
                       pct[1].num * Daily[i].balance_btc = Abs(net) * 100 * pct[1].den

\* C5 happens: a day with a buy and a larger sell is a sell day.
C5_Witness ==
    /\ Written
    /\ \E i \in 1..Len(Daily) :
           /\ Daily[i].transaction_type = "sell"
           /\ Daily[i].portfolio_pct # <<>>
           /\ \E k \in 1..Len(RawRows) :
                  /\ CalendarDay(RawRows[k].time) = Daily[i].timestamp
                  /\ RawRows[k].result > 0

\* C6: the portfolio fraction of a daily record is unset exactly when the
\* record's ending balance is zero.
C6_FractionUnsetIffZeroBalance ==
    Written =>
        \A i \in 1..Len(Daily) :
            (Daily[i].portfolio_pct = <<>>) <=> (Daily[i].balance_btc = 0)

\* C6 happens: one day ends with an empty wallet, another with a balance.
C6_Witness ==
    /\ Written
    /\ \E i, j \in 1..Len(Daily) :
           /\ Daily[i].balance_btc = 0 /\ Daily[i].portfolio_pct = <<>>
           /\ Daily[j].balance_btc # 0 /\ Daily[j].portfolio_pct # <<>>

\* The snapshot with the latest date in its file name, when there is one.
LatestSnapshot ==
    CHOOSE f \in richlist_dir.files : \A g \in richlist_dir.files : g.date <= f.date

\* The wallet is listed in a snapshot that could be loaded.
Listed ==
    /\ richlist_dir.exists
    /\ richlist_dir.files # {}
    /\ LatestSnapshot.readable
    /\ \E r \in Range(LatestSnapshot.rows) : r.btc_address = wallet_address

\* C7: every daily record carries the wallet's rank in the latest snapshot,
\* or 999 when the wallet is not listed or no snapshot could be loaded; only a
\* missing price file, never the richlist, keeps the processor from being
\* constructed or the table from being written.
C7_RankFromSnapshotOrSentinel ==
    /\ p_pc = "failed" => price_file = <<>>
    /\ (p_pc = "ready" /\ runs >= 1 /\ raw_file # <<>>) => Written
    /\ Written =>
           \A i \in 1..Len(Daily) :
               IF Listed
               THEN \E r \in Range(LatestSnapshot.rows) :
                        r.btc_address = wallet_address /\ Daily[i].rank = r.rank
               ELSE Daily[i].rank = 999

\* C7 happens: the snapshot lists other wallets only and both daily records
\* of the wallet carry the sentinel.
C7_Witness ==
    /\ Written
    /\ Len(Daily) = 2
    /\ richlist_dir.files # {}
    /\ LatestSnapshot.rows # <<>>
    /\ ~Listed
    /\ \A i \in 1..Len(Daily) : Daily[i].rank = 999

\* A daily table without its last_updated column.
WithoutLastUpdated(table) ==
    [i \in 1..Len(table) |->
        [f \in (DOMAIN table[i]) \ {"last_updated"} |-> table[i][f]]]

C9_UnpricedDayLeftUnset ==
    Written =>
        \A day \in RawDays \ PricedDays :
            \E i \in 1..Len(Daily) :
                /\ Daily[i].timestamp = day
                /\ Daily[i].price_usd = <<>>
                /\ Daily[i].transaction_value_usd = <<>>

\* The transaction of a calendar day that took place last: the history
\* numbers a wallet's transactions in the order they took place.
LastOfDay(day) ==
    CHOOSE tx \in Range(RawOfDay(day)) :
        \A other \in Range(RawOfDay(day)) : other.hash <= tx.hash

\* C22: the ending balance of every daily record is the balance after the
\* day's chronologically last transaction, also when transactions of the day
\* carry the same timestamp.
C22_EndingBalanceOfLastTransaction ==
    Written =>
        \A i \in 1..Len(Daily) :
            Daily[i].balance_btc = LastOfDay(Daily[i].timestamp).balance

\* What the code does ensure: the ending balance is the balance of one of the
\* day's transactions of greatest timestamp.
EndingBalanceOfALatestTransaction ==
    Written =>
        \A i \in 1..Len(Daily) :
            \E tx \in Range(RawOfDay(Daily[i].timestamp)) :
                /\ Daily[i].balance_btc = tx.balance
                /\ \A other \in Range(RawOfDay(Daily[i].timestamp)) :
                       other.time <= tx.time

\* The block heights of the transactions of a calendar day.
BlocksOfDay(day) == Range(Column(RawOfDay(day), "block_height"))

\* C23: in every daily record first_block is the least and last_block the
\* greatest block height over the day's transactions.
C23_FirstLastBlockAreMinMax ==
    Written =>
        \A i \in 1..Len(Daily) :
            /\ Daily[i].first_block \in BlocksOfDay(Daily[i].timestamp)
            /\ Daily[i].last_block \in BlocksOfDay(Daily[i].timestamp)
            /\ \A b \in BlocksOfDay(Daily[i].timestamp) :
                   Daily[i].first_block <= b /\ b <= Daily[i].last_block

\* The daily records whose transaction set holds hash h.
RecordsHolding(h) == {i \in 1..Len(Daily) : h \in Range(Daily[i].transactions)}

\* C27: aggregation conserves the raw history: the daily net amounts add up to
\* the sum of the raw amounts, the daily fees to the sum of the raw fees, and
\* every raw hash is in the transaction set of exactly one daily record, the
\* record of its own calendar date, which holds no other hash.
C27_AggregationConserves ==
    Written =>
        /\ SumSeq(Column(Daily, "amount_btc")) = SumSeq(Column(RawRows, "result"))
        /\ SumSeq(Column(Daily, "total_fee")) = SumSeq(Column(RawRows, "fee"))
        /\ \A k \in 1..Len(RawRows) :
               /\ Cardinality(RecordsHolding(RawRows[k].hash)) = 1
               /\ \A i \in RecordsHolding(RawRows[k].hash) :
                      Daily[i].timestamp = CalendarDay(RawRows[k].time)
        /\ \A i \in 1..Len(Daily) :
               /\ Range(Daily[i].transactions)
                      = Range(Column(RawOfDay(Daily[i].timestamp), "hash"))
               /\ Len(Daily[i].transactions) = Len(RawOfDay(Daily[i].timestamp))

\* C27 happens: three transactions, two of them on one day, one of them
\* moving money out, were aggregated into two records.
C27_Witness ==
    /\ Written
    /\ Len(RawRows) = 3
    /\ Len(Daily) = 2
    /\ \E i \in 1..2 : Len(Daily[i].transactions) = 2
    /\ \E k \in 1..3 : RawRows[k].result < 0

\* ------------------------------------------------------ metrics: claims
Computed == wallet_metrics # <<>>

\* money in: the sum of buy amount x price over the priced buy days
MoneyIn(df) ==
    SumSeq([i \in 1..Len(df) |->
        IF df[i].transaction_type = "buy" /\ df[i].price_usd # <<>>
        THEN df[i].amount_btc * df[i].price_usd[1]
        ELSE 0])

\* money out: the sum of |sell amount| x price over the priced sell days
MoneyOut(df) ==
    SumSeq([i \in 1..Len(df) |->
        IF df[i].transaction_type = "sell" /\ df[i].price_usd # <<>>
        THEN Abs(df[i].amount_btc) * df[i].price_usd[1]
        ELSE 0])

NetInvestment(df) == MoneyIn(df) - MoneyOut(df)

\* last balance x current reference price
CurrentValue(df) == df[Len(df)].balance_btc * current_btc_price

\* C10: roi_overall is (current value - net investment) / net investment x 100
\* when the net investment is positive and exactly 0 otherwise; it is never
\* the quotient by a zero or negative net investment.
C10_RoiOverall ==
    Computed =>
        LET roi == wallet_metrics[1].roi_overall
            net == NetInvestment(Daily)
        IN  /\ roi.den > 0
            /\ IF net > 0
               THEN roi.num * net = (CurrentValue(Daily) - net) * 100 * roi.den
               ELSE roi.num = 0

\* C10 happens, the worked example: one buy at price 10, no sell, the balance
\* still held, current reference price 12: the ROI is 20%.
C10_Witness ==
    /\ Computed
    /\ wallet_metrics[1].buy_count = 1
    /\ wallet_metrics[1].sell_count = 0
    /\ NetInvestment(Daily) = 10
    /\ CurrentValue(Daily) = 12
    /\ wallet_metrics[1].roi_overall.num = 20 * wallet_metrics[1].roi_overall.den

\* The floor of C10 happens too: buys and larger sell proceeds, the ROI is 0.
C10_FloorReached ==
    /\ Computed
    /\ wallet_metrics[1].buy_count >= 1
    /\ NetInvestment(Daily) < 0
    /\ CurrentValue(Daily) > 0
    /\ wallet_metrics[1].roi_overall.num = 0

\* C15: with no price file no stage produces output: the normalizer is not
\* constructed and writes no daily table, and a metrics engine constructed
\* without the price file writes no wallet metrics and no summary.
C15_NoOutputWithoutPrices ==
    /\ p_pc = "failed" => (runs = 0 /\ processed_file = <<>>)
    /\ (m_pc = "ready" /\ price_file = <<>>) =>
           (wallet_metrics = <<>> /\ summary_file = <<>>)

\* ------------------------------------------------ price updater: claims
\* The number of rows of table t that hold observation r.
Occurrences(t, r) == Len(SelectSeq(t, LAMBDA x : x = r))

PriceRows(file) == IF file = <<>> THEN <<>> ELSE file[1]

\* C16: every observation that was in the price table when the last run
\* started is still in it, with its date and its price, and every observation
\* that run added has a date later than every date the table held before.
C16_AppendOnlyForward ==
    u_runs >= 1 =>
        LET before == PriceRows(u_prev)
            after == PriceRows(price_file)
        IN  /\ \A r \in Range(before) : Occurrences(after, r) >= Occurrences(before, r)
            /\ before # <<>> =>
                   \A r \in Range(after) :
                       Occurrences(after, r) > Occurrences(before, r) =>
                           \A x \in Range(before) : r.Date > x.Date

\* C16 happens: a run found rows up to yesterday at price 10, was quoted 12
\* for yesterday and today, and added today's row only.
C16_Witness ==
    /\ u_outcome = "updated"
    /\ u_prev # <<>>
    /\ \E x \in Range(u_prev[1]) : x.Date = today - 1 /\ x.Price = 10
    /\ Len(price_file[1]) > Len(u_prev[1])
    /\ \A r \in Range(price_file[1]) : r.Price = 12 => r.Date = today

\* ------------------------------------------------------ storage: claims
\* C18: the table storage get_wallet_transactions returns after
\* save_wallet_transactions has as many rows as the table that was saved.
C18_LoadReturnsSavedRows ==
    st_pc = "loaded" => Len(st_loaded) = Len(st_data)

\* ----------------------------------------------- classification: claims
\* The frequency of t_trades trades over t_days days is at least f a month.
FrequencyAtLeast(f) == t_days > 0 /\ t_trades * 30 >= f * t_days

\* C11: the classification is the first matching rule: a span under 30 days
\* gives New Wallet whatever the frequency and the significant sells; else a
\* frequency of at least 10 trades a month with at least 3 significant sells
\* gives Active Trader; else at least 1 significant sell gives Occasional
\* Trader; else Holder.
C11_FirstMatchingRule ==
    t_type # "" =>
        /\ (t_type = "New Wallet") <=> (t_days < 30)
        /\ (t_type = "Active Trader") <=>
               (t_days >= 30 /\ FrequencyAtLeast(10) /\ t_sells >= 3)
        /\ (t_type = "Occasional Trader") <=>
               (t_days >= 30 /\ ~(FrequencyAtLeast(10) /\ t_sells >= 3) /\ t_sells >= 1)
        /\ (t_type = "Holder") <=> (t_days >= 30 /\ t_sells = 0)

\* C11 happens: a span of 10 days with 33 trades a month and 3 significant
\* sells is a New Wallet.
C11_Witness ==
    /\ t_type = "New Wallet"
    /\ t_days = 10
    /\ FrequencyAtLeast(10)
    /\ t_sells >= 3

\* ---------------------------------------------------- summary: claims
SummaryRows == IF summary_file = <<>> THEN <<>> ELSE summary_file[1]

\* The wallets whose metrics were computed so far.
Processed == {w \in Wallets : metrics_files[w] # <<>>}

\* C12: after any series of calculate_wallet_metrics calls the summary holds
\* exactly one row for every wallet processed so far and no other row, and
\* each row holds the values of that wallet's most recent computation.
C12_OneRowPerWallet ==
    /\ {SummaryRows[i].wallet_address : i \in 1..Len(SummaryRows)} = Processed
    /\ \A i, j \in 1..Len(SummaryRows) :
           SummaryRows[i].wallet_address = SummaryRows[j].wallet_address => i = j
    /\ \A i \in 1..Len(SummaryRows) :
           SummaryRows[i] = metrics_files[SummaryRows[i].wallet_address][1]

\* C12 happens: w1, then w2, then w1 again with changed metrics: two rows,
\* w2's first, w1's latest last.
C12_Witness ==
    /\ Processed = {"w1", "w2"}
    /\ replaced = {"w1"}
    /\ Len(SummaryRows) = 2
    /\ SummaryRows[1].wallet_address = "w2"
    /\ SummaryRows[2] = metrics_files["w1"][1]

\* C13: when the workers saving the metrics of different wallets have all
\* finished, every one of those wallets has its row in the summary.
C13_NoLostUpdate ==
    (\A w \in Wallets : w_pc[w] \in {"idle", "done"}) =>
        \A w \in Wallets :
            w_pc[w] = "done" =>
                \E i \in 1..Len(SummaryRows) : SummaryRows[i].wallet_address = w

\* ------------------------------------------------------- batch: claims
\* C14: in each batch loop a wallet's failure is caught and logged and the
\* loop goes on: no wallet is attempted twice, the loop is never left by an
\* exception, every failure met so far is logged, and when the loop has ended
\* every wallet of its input was attempted exactly once.
C14_EveryWalletAttemptedOnce ==
    /\ b_pc # "aborted"
    /\ \A w \in Wallets : b_attempts[w] <= 1
    /\ Range(b_logged) = {w \in b_faulty : b_attempts[w] = 1}
    /\ b_pc = "done" =>
           \A w \in Wallets :
               b_attempts[w] = IF w \in Range(b_input) THEN 1 ELSE 0

\* C14 happens: the first of three wallets failed and all three were
\* attempted.
C14_Witness ==
    /\ b_pc = "done"
    /\ Len(b_input) = 3
    /\ b_input[1] \in b_faulty
    /\ b_logged # <<>>
    /\ \A w \in Wallets : b_attempts[w] = 1

\* ------------------------------------------- performance metrics: claims
\* The sell days of the daily table.
SellDays == {i \in 1..Len(Daily) : Daily[i].transaction_type = "sell"}

\* The sell days whose net movement is at least num / den percent of the
\* day's ending balance, which is not zero.
SellsOfAtLeast(num, den) ==
    {i \in SellDays :
        /\ Daily[i].balance_btc # 0
        /\ Abs(Daily[i].amount_btc) * 100 * den >= num * Daily[i].balance_btc}

\* C24: significant_sells_count is the number of sell days whose net movement
\* is at least 1% of the ending balance; a sell day below 1% is not counted.
C24_SignificantFromOnePercent ==
    Computed =>
        wallet_metrics[1].significant_sells_count = Cardinality(SellsOfAtLeast(1, 1))

\* C29: a sell day that empties the wallet (ending balance zero, fraction
\* unset) is never counted among the significant sells: the count is the
\* number of sell days whose fraction is set and at or above the configured
\* threshold.
C29_EmptyingSellNotCounted ==
    Computed =>
        /\ wallet_metrics[1].significant_sells_count
               = Cardinality(SellsOfAtLeast(SIGNIFICANT_SELL_THRESHOLD.num,
                                            SIGNIFICANT_SELL_THRESHOLD.den))
        /\ wallet_metrics[1].significant_sells_count
               <= Cardinality({i \in SellDays : Daily[i].portfolio_pct # <<>>})

\* C29 happens: the one sell day of the wallet emptied it, and no sell is
\* counted.
C29_Witness ==
    /\ Computed
    /\ wallet_metrics[1].sell_count = 1
    /\ \E i \in SellDays :
           Daily[i].balance_btc = 0 /\ Daily[i].portfolio_pct = <<>>
    /\ wallet_metrics[1].significant_sells_count = 0

\* The threshold of C29 is reached from both sides: a sell day with a set
\* fraction below it is not counted, one exactly at it is.
C29_BelowThreshold ==
    /\ Computed
    /\ \E i \in SellDays : Daily[i].portfolio_pct # <<>>
    /\ wallet_metrics[1].significant_sells_count = 0

C29_AtThreshold ==
    /\ Computed
    /\ \E i \in SellDays :
           /\ Daily[i].portfolio_pct # <<>>
           /\ Daily[i].portfolio_pct[1].num * SIGNIFICANT_SELL_THRESHOLD.den
                  = SIGNIFICANT_SELL_THRESHOLD.num * Daily[i].portfolio_pct[1].den
    /\ wallet_metrics[1].significant_sells_count = 1

\* The buy and sell days with a known price.
PricedTradeDays ==
    {i \in 1..Len(Daily) :
        Daily[i].transaction_type \in {"buy", "sell"} /\ Daily[i].price_usd # <<>>}

\* The term a priced trade day contributes: amount x price.
PnlTerm(i) == Daily[i].amount_btc * Daily[i].price_usd[1]

\* C25: realized PnL is the sum of amount x price over the priced buy and sell
\* days, in which every buy day contributes a negative term and every sell
\* day a positive one.
C25_RealizedPnlSigns ==
    (Computed /\ wallet_metrics[1].realized_pnl_usd # <<>>) =>
        /\ wallet_metrics[1].realized_pnl_usd[1]
               = SumSeq([k \in 1..Len(Daily) |->
                            IF k \in PricedTradeDays THEN PnlTerm(k) ELSE 0])
        /\ \A i \in PricedTradeDays :
               /\ Daily[i].transaction_type = "buy" => PnlTerm(i) < 0
               /\ Daily[i].transaction_type = "sell" => PnlTerm(i) > 0

\* What the code computes: the same sum, in which a buy day contributes a
\* positive term and a sell day a negative one.
RealizedPnlIsSignedCost ==
    (Computed /\ wallet_metrics[1].realized_pnl_usd # <<>>) =>
        /\ wallet_metrics[1].realized_pnl_usd[1]
               = SumSeq([k \in 1..Len(Daily) |->
                            IF k \in PricedTradeDays THEN PnlTerm(k) ELSE 0])
        /\ \A i \in PricedTradeDays :
               /\ Daily[i].transaction_type = "buy" => PnlTerm(i) > 0
               /\ Daily[i].transaction_type = "sell" => PnlTerm(i) < 0

\* The days of the daily table with a known price.
PricedRecords == {i \in 1..Len(Daily) : Daily[i].price_usd # <<>>}

\* C26: portfolio_value_volatility and max_drawdown_pct are in the metrics
\* only when the daily table has at least two days with a known price, and a
\* max_drawdown_pct that is there is a non-negative number.
C26_VolatilityAndDrawdownNeedTwoPricedDays ==
    Computed =>
        /\ wallet_metrics[1].portfolio_value_volatility # <<>>
               => Cardinality(PricedRecords) >= 2
        /\ wallet_metrics[1].max_drawdown_pct # <<>>
               => /\ Cardinality(PricedRecords) >= 2
                  /\ ~wallet_metrics[1].max_drawdown_pct[1].nan
                  /\ wallet_metrics[1].max_drawdown_pct[1].num >= 0
                  /\ wallet_metrics[1].max_drawdown_pct[1].den > 0

\* What the code does ensure: the two keys are there only for a table of at
\* least two days, priced or not, and a drawdown that is a number is not
\* negative.
VolatilityAndDrawdownNeedTwoDays ==
    Computed =>
        /\ wallet_metrics[1].portfolio_value_volatility # <<>> => Len(Daily) >= 2
        /\ wallet_metrics[1].max_drawdown_pct # <<>> =>
               /\ Len(Daily) >= 2
               /\ wallet_metrics[1].max_drawdown_pct[1].num >= 0
               /\ wallet_metrics[1].max_drawdown_pct[1].den > 0

\* -------------------------------------------------- reference price: claims
\* The rows of a price table are in ascending date order.
Ascending(t) == \A i \in 1..(Len(t) - 1) : t[i].Date <= t[i + 1].Date

\* The price _load_current_btc_price reads is the price of a row of the
\* latest date in the table.
ReadsLatest(file) ==
    \E i \in 1..Len(file[1]) :
        /\ file[1][i].Date = LastDate(file[1])
        /\ file[1][i].Price = LoadCurrentBtcPrice(file)

\* C28: after any sequence of update_price_data runs the rows of the price
\* table are in ascending date order, so that the current reference price,
\* the price of the last row, is the price of the latest-dated observation.
C28_CurrentPriceIsLatest ==
    (u_runs >= 1 /\ PriceRows(price_file) # <<>>) =>
        /\ Ascending(price_file[1])
        /\ ReadsLatest(price_file)

\* The second half of C28 alone.
CurrentPriceIsLatest ==
    (u_runs >= 1 /\ PriceRows(price_file) # <<>>) => ReadsLatest(price_file)

\* What the code does ensure: a run that wrote the table left it in ascending
\* date order, with a row of the latest date last.
AscendingAfterWrite ==
    (u_outcome = "updated" /\ PriceRows(price_file) # <<>>) =>
        /\ Ascending(price_file[1])
        /\ ReadsLatest(price_file)

\* ------------------------------------------------------- pipeline: claims
\* The place of a script in the pipeline.
StageOf(script) == CHOOSE k \in 1..Len(Scripts) : Scripts[k] = script

\* The stages run in order, each started only after the one before it exited.
StagesInOrder ==
    /\ Len(pl_started) <= Len(Scripts)
    /\ \A k \in 1..Len(pl_started) : pl_started[k] = Scripts[k]
    /\ Len(pl_started) <= Len(pl_exited) + 1
    /\ pl_step # 0 <=> Len(pl_started) = Len(pl_exited) + 1

\* C30: the pipeline runs collection, processing and alerts strictly in that
\* order, each started only after the one before it exited; when a stage
\* failed (an error was raised in it) no later stage is started, and the
\* pipeline that has ended after it has exited non-zero.
C30_FailedStageStopsPipeline ==
    /\ StagesInOrder
    /\ \A e \in 1..Len(pl_errors) :
           /\ Len(pl_started) = StageOf(pl_errors[e].script)
           /\ pl_step = 0
           /\ pl_status = <<1>>

\* What the code does ensure: the stages run in order, and a stage that exited
\* with a return code other than 0 is the last one started, after which the
\* pipeline exits with 1.
NonZeroReturnStopsPipeline ==
    /\ StagesInOrder
    /\ \A k \in 1..Len(pl_exited) :
           pl_exited[k] # 0 =>
               /\ Len(pl_started) = k
               /\ pl_status = <<1>>
    /\ pl_status = <<0>> =>
           /\ pl_started = Scripts
           /\ \A k \in 1..Len(pl_exited) : pl_exited[k] = 0

====
